---- MODULE Spec2Model ----
(***************************************************************************)
(* A model of the generation gateway (services/geminiService.ts) and of    *)
(* the feature surfaces that call it (MarketingPlan, MultiPostManager,     *)
(* VideoGenerator).  Texts are sequences of characters; a character is a   *)
(* one-character string, except that the backtick, the no-break space, a   *)
(* JSON string literal and a JSON element object are each one symbol.      *)
(***************************************************************************)
EXTENDS Integers, Sequences, FiniteSets, TLC

\* ------------------------------------------------------------------ bounds

\* Status checks after which the modelled backend stops answering done=false.
MaxChecks == 3
\* Pieces a modelled response body is concatenated from.
MaxPieces == 2
\* The longest list of grounding chunks in a getLocalInsights response.
MaxChunks == 2
\* The longest list of content parts in an editImage response.
MaxParts == 2

\* ------------------------------------------------------------ text helpers

Min(a, b) == IF a < b THEN a ELSE b
Max(a, b) == IF a > b THEN a ELSE b

\* Characters String.prototype.trim removes, and the subset JSON.parse skips.
NBSP == "nbsp"
TrimWhitespace == {" ", "\n", NBSP}
JsonWhitespace == {" ", "\n"}

RECURSIVE TrimStart(_)
TrimStart(s) ==
    IF s # <<>> /\ Head(s) \in TrimWhitespace THEN TrimStart(Tail(s)) ELSE s

RECURSIVE TrimEnd(_)
TrimEnd(s) ==
    IF s # <<>> /\ s[Len(s)] \in TrimWhitespace
    THEN TrimEnd(SubSeq(s, 1, Len(s) - 1))
    ELSE s

trim(s) == TrimEnd(TrimStart(s))

startsWith(s, p) == Len(s) >= Len(p) /\ SubSeq(s, 1, Len(p)) = p
endsWith(s, p) == Len(s) >= Len(p) /\ SubSeq(s, Len(s) - Len(p) + 1, Len(s)) = p

\* String.prototype.slice(start, end): a negative index counts from the end.
slice(s, start, end) ==
    LET n == Len(s)
        from == IF start < 0 THEN Max(n + start, 0) ELSE Min(start, n)
        to == IF end < 0 THEN Max(n + end, 0) ELSE Min(end, n)
    IN  SubSeq(s, from + 1, to)

\* A variant of includes: the needle is looked for at the start only.
includesAtStart(s, needle) == startsWith(s, needle)

\* String.prototype.includes
includes(s, needle) ==
    \E i \in 1..(Len(s) - Len(needle) + 1) :
        SubSeq(s, i, i + Len(needle) - 1) = needle

\* The backtick character (written as a word, as NBSP is).
Backtick == "backtick"
FenceOpen == <<Backtick, Backtick, Backtick, "j", "s", "o", "n">>
FenceClose == <<Backtick, Backtick, Backtick>>

\* ------------------------------------------------------------- JSON.parse

KeyCompetitorAnalysis == "\"competitorAnalysis\""
KeyContentPillars == "\"contentPillars\""
KeyPostIdeas == "\"postIdeas\""
KeyRecommendations == "\"recommendations\""
StringLiterals ==
    {KeyCompetitorAnalysis, KeyContentPillars, KeyPostIdeas, KeyRecommendations}
\* One well-formed element object (a competitor, a pillar, a post idea, ...).
Element == "{elem}"

\* A parsed value: t is "obj", "arr", "str", "elem" or "undefined".
Undefined == [t |-> "undefined", keys |-> <<>>, items |-> <<>>]
Obj(keys, items) == [t |-> "obj", keys |-> keys, items |-> items]
Arr(items) == [t |-> "arr", keys |-> <<>>, items |-> items]
Scalar(tok) ==
    [t |-> IF tok = Element THEN "elem" ELSE "str", keys |-> <<tok>>, items |-> <<>>]

RECURSIVE SkipWhitespace(_)
SkipWhitespace(s) ==
    IF s = <<>> THEN <<>>
    ELSE IF Head(s) \in JsonWhitespace THEN SkipWhitespace(Tail(s))
    ELSE <<Head(s)>> \o SkipWhitespace(Tail(s))

IndexOfKey(keys, k) ==
    IF \E i \in 1..Len(keys) : keys[i] = k
    THEN CHOOSE i \in 1..Len(keys) : keys[i] = k
    ELSE 0

\* obj[k] = v: a repeated key overwrites the value and keeps its position.
PutMember(o, k, v) ==
    LET i == IndexOfKey(o.keys, k)
    IN  IF i = 0
        THEN Obj(Append(o.keys, k), Append(o.items, v))
        ELSE Obj(o.keys, [o.items EXCEPT ![i] = v])

\* obj[k], undefined when the property is missing or obj is no object.
GetMember(o, k) ==
    IF o.t = "obj" /\ IndexOfKey(o.keys, k) # 0
    THEN o.items[IndexOfKey(o.keys, k)]
    ELSE Undefined

ParseFail == [ok |-> FALSE, val |-> Undefined, next |-> 0]

RECURSIVE ParseValue(_, _), ParseMembers(_, _, _), ParseElements(_, _, _)
ParseValue(toks, i) ==
    IF i > Len(toks) THEN ParseFail
    ELSE IF toks[i] = "{" THEN
        IF i + 1 <= Len(toks) /\ toks[i + 1] = "}"
        THEN [ok |-> TRUE, val |-> Obj(<<>>, <<>>), next |-> i + 2]
        ELSE ParseMembers(toks, i + 1, Obj(<<>>, <<>>))
    ELSE IF toks[i] = "[" THEN
        IF i + 1 <= Len(toks) /\ toks[i + 1] = "]"
        THEN [ok |-> TRUE, val |-> Arr(<<>>), next |-> i + 2]
        ELSE ParseElements(toks, i + 1, <<>>)
    ELSE IF toks[i] \in StringLiterals \cup {Element}
        THEN [ok |-> TRUE, val |-> Scalar(toks[i]), next |-> i + 1]
    ELSE ParseFail

ParseMembers(toks, i, acc) ==
    IF i + 2 > Len(toks) \/ toks[i] \notin StringLiterals \/ toks[i + 1] # ":"
    THEN ParseFail
    ELSE LET v == ParseValue(toks, i + 2)
         IN  IF ~v.ok \/ v.next > Len(toks) THEN ParseFail
             ELSE IF toks[v.next] = ","
                 THEN ParseMembers(toks, v.next + 1, PutMember(acc, toks[i], v.val))
             ELSE IF toks[v.next] = "}"
                 THEN [ok |-> TRUE, val |-> PutMember(acc, toks[i], v.val),
                       next |-> v.next + 1]
             ELSE ParseFail

ParseElements(toks, i, acc) ==
    LET v == ParseValue(toks, i)
    IN  IF ~v.ok \/ v.next > Len(toks) THEN ParseFail
        ELSE IF toks[v.next] = ","
            THEN ParseElements(toks, v.next + 1, Append(acc, v.val))
        ELSE IF toks[v.next] = "]"
            THEN [ok |-> TRUE, val |-> Arr(Append(acc, v.val)), next |-> v.next + 1]
        ELSE ParseFail

\* JSON.parse(text): ok is FALSE where JSON.parse throws a SyntaxError.
JSONparse(text) ==
    LET toks == SkipWhitespace(text)
        r == ParseValue(toks, 1)
    IN  IF r.ok /\ r.next = Len(toks) + 1
        THEN [ok |-> TRUE, val |-> r.val]
        ELSE [ok |-> FALSE, val |-> Undefined]

\* ------------------------------------------------------ gateway: parsing

\* A variant of StripFence: the trailing fence is left in place.
StripFenceOpeningOnly(text) ==
    LET t0 == trim(text)
    IN  IF startsWith(t0, FenceOpen)
        THEN trim(slice(t0, 7, Len(t0)))
        ELSE t0

\* generateMarketingPlan / generateMarketAnalysis, the body of the try block:
\* trim, strip a leading ```json fence and a trailing ``` fence, JSON.parse.
StripFence(text) ==
    LET t0 == trim(text)
    IN  IF startsWith(t0, FenceOpen)
        THEN LET t1 == trim(slice(t0, 7, Len(t0)))
             IN  IF endsWith(t1, FenceClose)
                 THEN trim(slice(t1, 0, -3))
                 ELSE t1
        ELSE t0

\* A variant of ParsePlanText: a text that does not parse yields an empty plan.
ParsePlanTextLenient(text) ==
    LET r == JSONparse(StripFence(text))
    IN  IF r.ok THEN r ELSE [ok |-> TRUE, val |-> Obj(<<>>, <<>>)]

ParsePlanText(text) == JSONparse(StripFence(text))

\* getPostingRecommendations, the body of the try block: trim, JSON.parse,
\* then the member access parsedJson.recommendations.
ParseRecommendationsText(text) ==
    LET r == JSONparse(trim(text))
    IN  [ok |-> r.ok, val |-> GetMember(r.val, KeyRecommendations)]

\* Grounding chunks.  A chunk has an optional web part and an optional maps
\* part; a missing part or field is the string "undefined".
Absent == "undefined"
NoPart == [present |-> FALSE, title |-> Absent, uri |-> Absent, placeId |-> Absent]
Part(title, uri, placeId) ==
    [present |-> TRUE, title |-> title, uri |-> uri, placeId |-> placeId]

\* a ?? b
NullishOr(a, b) == IF a = Absent THEN b ELSE a

NullGrounding == [isNull |-> TRUE, web |-> <<>>, maps |-> <<>>]

RECURSIVE CollectWeb(_), CollectMaps(_), CollectWebNewestFirst(_),
          CollectMapsUnlessWeb(_)
CollectWebNewestFirst(chunks) ==
    IF chunks = <<>> THEN <<>>
    ELSE CollectWebNewestFirst(Tail(chunks)) \o
         (IF Head(chunks).web.present
          THEN <<[title |-> NullishOr(Head(chunks).web.title, "Untitled"),
                  uri |-> NullishOr(Head(chunks).web.uri, "")]>>
          ELSE <<>>)
CollectWeb(chunks) ==
    IF chunks = <<>> THEN <<>>
    ELSE (IF Head(chunks).web.present
          THEN <<[title |-> NullishOr(Head(chunks).web.title, "Untitled"),
                  uri |-> NullishOr(Head(chunks).web.uri, "")]>>
          ELSE <<>>) \o CollectWeb(Tail(chunks))
CollectMapsUnlessWeb(chunks) ==
    IF chunks = <<>> THEN <<>>
    ELSE (IF Head(chunks).maps.present /\ ~Head(chunks).web.present
          THEN <<[title |-> NullishOr(Head(chunks).maps.title, "Untitled"),
                  uri |-> NullishOr(Head(chunks).maps.uri, ""),
                  placeId |-> Head(chunks).maps.placeId]>>
          ELSE <<>>) \o CollectMapsUnlessWeb(Tail(chunks))
CollectMaps(chunks) ==
    IF chunks = <<>> THEN <<>>
    ELSE (IF Head(chunks).maps.present
          THEN <<[title |-> NullishOr(Head(chunks).maps.title, "Untitled"),
                  uri |-> NullishOr(Head(chunks).maps.uri, ""),
                  placeId |-> Head(chunks).maps.placeId]>>
          ELSE <<>>) \o CollectMaps(Tail(chunks))

\* chunks is [defined, list]: defined is FALSE for an undefined chunk list.
parseGroundingChunksNullWhenNoSources(chunks) ==
    IF CollectWeb(chunks.list) = <<>> /\ CollectMaps(chunks.list) = <<>>
    THEN NullGrounding
    ELSE [isNull |-> FALSE, web |-> CollectWeb(chunks.list),
          maps |-> CollectMaps(chunks.list)]
parseGroundingChunks(chunks) ==
    IF ~chunks.defined \/ Len(chunks.list) = 0
    THEN NullGrounding
    ELSE [isNull |-> FALSE, web |-> CollectWeb(chunks.list),
          maps |-> CollectMaps(chunks.list)]

\* ------------------------------------------------------- failure messages

\* A message is a sequence of words; null (no error shown) is <<>>.
NoError == <<>>
InvalidCredentialNeedle == <<"Requested", "entity", "was", "not", "found">>

MsgApiKeyMissing == <<"API_KEY environment variable not found.">>
MsgPlanFormat ==
    <<"Could not generate a valid marketing plan. The response from the AI was not in the expected JSON format.">>
MsgRecommendationsFormat ==
    <<"Could not generate valid recommendations. The response from the AI was not in the expected JSON format.">>
MsgNoUri == <<"Video generation failed or returned no URI.">>
MsgDownloadFailed == <<"Failed to fetch generated video.">>
MsgUnknown == <<"An unknown error occurred.">>
MsgInvalidKey == <<"Your API key is invalid. Please select a valid key.">>
MsgPlanValidation == <<"Please fill in both your business and competitor information.">>
MsgRecommendationsValidation == <<"Please write some content and select at least one platform.">>
MsgVideoValidation == <<"Please upload an image and provide a video prompt.">>
MsgPreviewFailed == <<"Failed to load image preview.">>
MsgSelectKeyFailed == <<"Could not open the API key selection dialog.">>
MsgSelectKeyUnavailable == <<"API key selection is not available in this environment.">>

MsgQueryValidation == <<"Please enter a query.">>
MsgNoLocation == <<"Could not determine your location.">>
MsgUpscaleValidation == <<"Please upload an image to upscale.">>
MsgNoImage == <<"No image was generated.">>
MsgUpscaleFailed == <<"Failed to upscale image.">>
MsgFileTooLarge == <<"Image size exceeds the", "4", "MB limit.">>
MsgUnsupportedType ==
    <<"Unsupported image type. Please use one of the following:",
      "jpeg, png, webp, heic, heif", ".">>
\* The TypeError of reading a property of undefined.
MsgTypeError == <<"Cannot read properties of undefined">>
MsgEditValidation == <<"Please upload an image and provide an editing prompt.">>
MsgEditFailed == <<"Failed to edit image.">>
MsgFilterFailed == <<"Could not apply filter for download.">>
MsgTopicValidation == <<"Please enter a topic or some keywords.">>
MsgPostUnknown == <<"An unknown error occurred while generating the post.">>
MsgImagePromptValidation == <<"Please enter a prompt to generate an image.">>
MsgImageFailed == <<"Failed to generate image.">>

\* A thrown value: an Error with a message, or a value that is no Error.
Err(msg) == [isError |-> TRUE, message |-> msg]
NotAnError == [isError |-> FALSE, message |-> <<>>]

\* What the backend (SDK, fetch, FileReader) may reject with.
BackendFailures ==
    { Err(InvalidCredentialNeedle \o <<".">>),
      Err(<<"404", "NOT_FOUND:">> \o InvalidCredentialNeedle),
      Err(<<"Requested", "entity", "was", "found">>),
      Err(<<"requested", "entity", "was", "not", "found">>),
      Err(<<"Quota", "exceeded">>),
      NotAnError }

\* err instanceof Error ? err.message : 'An unknown error occurred.'
ErrorMessage(err) == IF err.isError THEN err.message ELSE MsgUnknown

\* ------------------------------------------------------- modelled inputs

\* What a user may type into a text field: nothing, blanks only, some text.
InputTexts == {<<>>, <<" ">>, <<"a">>}

\* Documents the backend may answer with.
DocFull ==
    <<"{", KeyCompetitorAnalysis, ":", "[", Element, "]", ",",
           KeyContentPillars, ":", "[", Element, "]", ",",
           KeyPostIdeas, ":", "[", Element, "]", "}">>
DocEmpty == <<"{", "}">>
DocRecommendations == <<"{", KeyRecommendations, ":", "[", Element, "]", "}">>

\* The pieces a modelled plan response is concatenated from, and those of a
\* recommendations response.
PlanPieces ==
    {FenceOpen, FenceClose, <<" ">>, <<NBSP>>, <<"x">>, DocFull, DocEmpty}
RecommendationsPieces ==
    {<<" ">>, <<"x">>, <<"[", Element, "]">>, DocRecommendations, DocEmpty}

RECURSIVE Concatenations(_, _)
Concatenations(pieces, n) ==
    IF n = 0 THEN {<<>>}
    ELSE LET shorter == Concatenations(pieces, n - 1)
         IN  shorter \cup {b \o p : b \in shorter, p \in pieces}

\* text inside a ```json fence, with the given whitespace around each part.
Fenced(text, pre, afterOpen, beforeClose, post) ==
    pre \o FenceOpen \o afterOpen \o text \o beforeClose \o FenceClose \o post

Pads == {<<>>, <<" ">>, <<"\n">>}

\* The texts a generateContent response may carry, for a plan and for
\* recommendations.
PlanResponseTexts ==
    Concatenations(PlanPieces, MaxPieces)
        \cup {Fenced(b, <<>>, <<"\n">>, <<"\n">>, <<"\n">>) :
                 b \in Concatenations(PlanPieces, MaxPieces - 1)}
RecommendationsResponseTexts == Concatenations(RecommendationsPieces, MaxPieces)

\* response.candidates?.[0]?.groundingMetadata?.groundingChunks: undefined,
\* empty, or a list of chunks.
WebChunk == [web |-> Part("T", "u", Absent), maps |-> NoPart]
MapsChunk == [web |-> NoPart, maps |-> Part(Absent, "u", "p")]
GroundingChunkValues ==
    { [defined |-> FALSE, list |-> <<>>],
      [defined |-> TRUE, list |-> <<>>],
      [defined |-> TRUE, list |-> <<WebChunk>>],
      [defined |-> TRUE, list |-> <<MapsChunk, WebChunk>>] }

\* The chunks a getLocalInsights response may carry: with a web part, with a
\* maps part, with both, or with neither (a retrievedContext chunk).
WebUntitled == [web |-> Part(Absent, Absent, Absent), maps |-> NoPart]
MapsTitled == [web |-> NoPart, maps |-> Part("M", Absent, Absent)]
BothChunk == [web |-> Part("T", "u", Absent), maps |-> Part("M", "u", "p")]
NeitherChunk == [web |-> NoPart, maps |-> NoPart]
ChunkKinds ==
    {WebChunk, WebUntitled, MapsChunk, MapsTitled, BothChunk, NeitherChunk}
RECURSIVE ChunkLists(_)
ChunkLists(n) ==
    IF n = 0 THEN {<<>>}
    ELSE LET shorter == ChunkLists(n - 1)
         IN  shorter \cup {Append(l, c) : l \in shorter, c \in ChunkKinds}
LocalGroundingChunkValues ==
    {[defined |-> FALSE, list |-> <<>>]}
        \cup {[defined |-> TRUE, list |-> l] : l \in ChunkLists(MaxChunks)}
LocalResponseTexts == {<<>>, <<"x">>}
Positions == {"here"}
PositionErrors == {"PERMISSION_DENIED", "TIMEOUT"}

Files == {"f1", "f2"}

\* Image files offered to the upscaler: a File has a name, a size in bytes
\* and a type.
supportedMimeTypes ==
    {"image/jpeg", "image/png", "image/webp", "image/heic", "image/heif"}
MAX_FILE_SIZE_MB == 4
MAX_FILE_SIZE_BYTES == MAX_FILE_SIZE_MB * 1024 * 1024
NoFile == [name |-> "null", size |-> 0, type |-> ""]
ImageFiles ==
    { [name |-> "limit.png", size |-> MAX_FILE_SIZE_BYTES, type |-> "image/png"],
      [name |-> "large.png", size |-> MAX_FILE_SIZE_BYTES + 1,
       type |-> "image/png"],
      [name |-> "small.gif", size |-> 1, type |-> "image/gif"] }
\* The filters offered by the editor, and those a user picks in the model.
imageFilters == {"none", "grayscale", "sepia", "invert", "vintage"}
FilterChoices == {"none", "grayscale", "sepia"}
\* getMimeType of utils/fileUtils: the file's mime type.
getMimeType(file) == file.type

\* The content parts of an editImage response: a text part, or a part with
\* inline data.
TextPart == [inlineData |-> FALSE, data |-> ""]
InlinePart(data) == [inlineData |-> TRUE, data |-> data]
PartKinds == {TextPart, InlinePart("i1"), InlinePart("i2")}
RECURSIVE PartLists(_)
PartLists(n) ==
    IF n = 0 THEN {<<>>}
    ELSE LET shorter == PartLists(n - 1)
         IN  shorter \cup {Append(l, c) : l \in shorter, c \in PartKinds}
\* A response with no candidate (candidates is FALSE), or with the parts of
\* its first candidate's content.
ImageResponses ==
    {[candidates |-> FALSE, parts |-> <<>>]}
        \cup {[candidates |-> TRUE, parts |-> l] : l \in PartLists(MaxParts)}
\* The text of a generatePostContent response.
PostResponseTexts == {<<>>, <<"x">>}
\* A generateImages response: without any image (generatedImages is FALSE),
\* or with the bytes of its first image.
GeneratedImagesResponses ==
    {[generatedImages |-> FALSE, imageBytes |-> ""],
     [generatedImages |-> TRUE, imageBytes |-> ""],
     [generatedImages |-> TRUE, imageBytes |-> "bytes"]}
AspectRatio == {"16:9", "9:16", "1:1"}
availablePlatforms == <<"Facebook", "Instagram", "LinkedIn", "Google Business Profile">>

\* ------------------------------------------------------------------ state

VARIABLES
    activeTab,          \* App: the mounted feature surface
    apiKey,             \* process.env.API_KEY is set
    aistudio,           \* window.aistudio is defined
    \* MarketingPlan
    businessInfo, competitorsInfo, plan, grounding, planLoading, planError,
    \* MultiPostManager
    postContent, selectedPlatforms, recommendations, multiLoading, multiError,
    \* VideoGenerator
    apiKeySelected, checkingApiKey, keyDialog, imageFile, previewUrl,
    pendingReads, generatedVideoUrl, prompt, videoLoading, videoError,
    \* the gateway call in flight: where it is suspended, and its operation
    pc, operation,
    \* the record of the current (or last) submission
    outcome,            \* "none", "rejected", "pending", "returned" or "thrown"
    thrown,             \* the value the gateway call threw
    requests,           \* backend requests the call has issued
    requestFailed,      \* one of them failed
    responseText,       \* the text of the generateContent response
    consoleError,       \* the response text the gateway passed to console.error
    heldAtSubmit,       \* the surface held a result when the submission was made
    checks, waits, fetches, blobUrls,
    observed,           \* the done flags of the operations received, in order
    fetchResponse,      \* "none", "ok", "not ok" or "rejected"
    \* LocalInsights and its useGeolocation hook
    geolocation,        \* navigator.geolocation is defined
    geo,                \* the hook's state: loading, error, data
    geoRequest,         \* "mount", "getCurrentPosition" or "idle"
    query, insights, localGrounding, localLoading, localError,
    chunksReceived,     \* the grounding chunks of the response received
    \* ImageUpscaler
    upscalerImageFile, originalImageUrl, upscalerReads, upscaledImageUrl,
    upscalerLoading, upscalerError,
    upscalerVersion,    \* which of the two versions of the component is built
    upscalerSubmitted,  \* the imageFile the running handleSubmit closed over
    imageResponse,      \* the response editImage received
    imageReturned,      \* the data editImage returned
    \* ImageEditor
    editorImageFile, editorOriginalUrl, editorReads, editedImageUrl,
    downloadableUrl, selectedFilter, editorPrompt, editorLoading, editorError,
    editorSubmitted,    \* the imageFile the running handleSubmit closed over
    filterJobs,         \* applyFilterAndGetUrl promises not yet settled
    \* what the gateway put on the wire during the current submission
    keyReads,           \* process.env.API_KEY was set, at each getApiKey() call
    request,            \* the request last sent through the SDK
    handle,             \* the operation the last status check passed
    \* App: the content calendar's task list
    tasks,
    \* PostWriter
    topic, generatedPost, writerLoading, writerError,
    \* ImageGenerator
    generatorPrompt, generatorAspectRatio, generatedImageUrl,
    generatorLoading, generatorError,
    \* VideoGenerator's aspect ratio, and the one sent to the backend
    aspectRatio, sentAspectRatio,
    videoSubmitted      \* imageFile and aspectRatio the running handleSubmit
                        \* closed over

appVars == <<activeTab, apiKey, aistudio>>
planVars == <<businessInfo, competitorsInfo, plan, grounding, planLoading, planError>>
multiVars == <<postContent, selectedPlatforms, recommendations, multiLoading, multiError>>
videoVars ==
    <<apiKeySelected, checkingApiKey, keyDialog, imageFile, previewUrl,
      pendingReads, generatedVideoUrl, prompt, videoLoading, videoError>>
callVars == <<pc, operation>>
recordVars ==
    <<outcome, thrown, requests, requestFailed, responseText, consoleError,
      heldAtSubmit>>
pollVars == <<checks, waits, fetches, blobUrls, observed, fetchResponse>>
localVars ==
    <<geolocation, geo, geoRequest, query, insights, localGrounding,
      localLoading, localError, chunksReceived>>
upscalerVars ==
    <<upscalerImageFile, originalImageUrl, upscalerReads, upscaledImageUrl,
      upscalerLoading, upscalerError, upscalerVersion, upscalerSubmitted,
      imageResponse, imageReturned>>
editorVars ==
    <<editorImageFile, editorOriginalUrl, editorReads, editedImageUrl,
      downloadableUrl, selectedFilter, editorPrompt, editorLoading,
      editorError, editorSubmitted, filterJobs>>
wireVars == <<keyReads, request, handle>>
taskVars == <<tasks>>
writerVars == <<topic, generatedPost, writerLoading, writerError>>
generatorVars ==
    <<generatorPrompt, generatorAspectRatio, generatedImageUrl,
      generatorLoading, generatorError>>
videoCallVars == <<aspectRatio, sentAspectRatio, videoSubmitted>>
vars ==
    <<appVars, planVars, multiVars, videoVars, callVars, recordVars, pollVars,
      localVars, upscalerVars, editorVars, wireVars, taskVars, writerVars,
      generatorVars, videoCallVars>>

Null == [t |-> "null", keys |-> <<>>, items |-> <<>>]
NoText == [present |-> FALSE, text |-> <<>>]
Text(t) == [present |-> TRUE, text |-> t]
NoOperation == [done |-> FALSE, uri |-> Absent]
NoThrow == Err(<<>>)

Tabs == {"plan", "multi-post", "video"}

\* useState initial values of each component.
PlanInit ==
    /\ businessInfo = <<>> /\ competitorsInfo = <<>>
    /\ plan = Null /\ grounding = NullGrounding
    /\ planLoading = FALSE /\ planError = NoError
MultiInit ==
    /\ postContent = <<>> /\ selectedPlatforms = <<>>
    /\ recommendations = Null
    /\ multiLoading = FALSE /\ multiError = NoError
VideoInit ==
    /\ apiKeySelected = FALSE /\ checkingApiKey = TRUE /\ keyDialog = "idle"
    /\ imageFile = "null" /\ previewUrl = "null" /\ pendingReads = {}
    /\ generatedVideoUrl = "null" /\ prompt = <<>>
    /\ videoLoading = FALSE /\ videoError = NoError
RecordInit ==
    /\ outcome = "none" /\ thrown = NoThrow /\ requests = 0
    /\ requestFailed = FALSE /\ responseText = NoText /\ consoleError = NoText
    /\ heldAtSubmit = FALSE
    /\ checks = 0 /\ waits = 0 /\ fetches = 0 /\ blobUrls = 0 /\ observed = <<>>
    /\ fetchResponse = "none"

\* The requests the gateway builds (model, prompt and contents left out): the
\* retrieval tool asked for, whether a responseSchema is attached, and whether
\* the prompt demands one raw JSON object without code fences; expectsJson
\* says whether the gateway passes the response text to JSON.parse.
NoRequest ==
    [op |-> "none", tools |-> "none", responseSchema |-> FALSE,
     forbidsFences |-> FALSE, expectsJson |-> FALSE]
generateMarketingPlanRequestWithSchema ==
    [op |-> "generateMarketingPlan", tools |-> "googleSearch",
     responseSchema |-> TRUE, forbidsFences |-> FALSE, expectsJson |-> TRUE]
generateMarketingPlanRequest ==
    [op |-> "generateMarketingPlan", tools |-> "googleSearch",
     responseSchema |-> FALSE, forbidsFences |-> TRUE, expectsJson |-> TRUE]
getPostingRecommendationsRequest ==
    [op |-> "getPostingRecommendations", tools |-> "none",
     responseSchema |-> TRUE, forbidsFences |-> FALSE, expectsJson |-> TRUE]
getLocalInsightsRequest ==
    [op |-> "getLocalInsights", tools |-> "googleMaps",
     responseSchema |-> FALSE, forbidsFences |-> FALSE, expectsJson |-> FALSE]
editImageRequest ==
    [op |-> "editImage", tools |-> "none", responseSchema |-> FALSE,
     forbidsFences |-> FALSE, expectsJson |-> FALSE]
generatePostContentRequest ==
    [op |-> "generatePostContent", tools |-> "none", responseSchema |-> FALSE,
     forbidsFences |-> FALSE, expectsJson |-> FALSE]
generateImagesRequest ==
    [op |-> "generateImage", tools |-> "none", responseSchema |-> FALSE,
     forbidsFences |-> FALSE, expectsJson |-> FALSE]
generateVideosRequest ==
    [op |-> "generateVideo", tools |-> "none", responseSchema |-> FALSE,
     forbidsFences |-> FALSE, expectsJson |-> FALSE]

NoChunks == [defined |-> FALSE, list |-> <<>>]
NoImageResponse == [candidates |-> FALSE, parts |-> <<>>]
LocalInit ==
    /\ geo = [loading |-> TRUE, error |-> "null", data |-> "null"]
    /\ query = <<>> /\ insights = NoText /\ localGrounding = NullGrounding
    /\ localLoading = FALSE /\ localError = NoError
    /\ chunksReceived = NoChunks
NoUrl == <<>>
UpscalerVersions == {"part_001", "part_002"}
UpscalerState ==
    /\ upscalerImageFile = NoFile /\ originalImageUrl = "null"
    /\ upscalerReads = {} /\ upscaledImageUrl = NoUrl
    /\ upscalerLoading = FALSE /\ upscalerError = NoError
    /\ upscalerSubmitted = NoFile
    /\ imageResponse = NoImageResponse /\ imageReturned = ""
UpscalerInit == UpscalerState /\ upscalerVersion = "part_002"
EditorInit ==
    /\ editorImageFile = NoFile /\ editorOriginalUrl = "null"
    /\ editorReads = {} /\ editedImageUrl = NoUrl
    /\ downloadableUrl = NoUrl /\ selectedFilter = "none"
    /\ editorPrompt = <<>>
    /\ editorLoading = FALSE /\ editorError = NoError
    /\ editorSubmitted = NoFile
    /\ filterJobs = {}
TasksInit == tasks = <<>>
PostWriterInit ==
    /\ topic = <<>> /\ generatedPost = Text(<<>>)
    /\ writerLoading = FALSE /\ writerError = NoError
ImageGeneratorInit ==
    /\ generatorPrompt = <<>> /\ generatorAspectRatio = "1:1"
    /\ generatedImageUrl = NoUrl
    /\ generatorLoading = FALSE /\ generatorError = NoError
WireInitWith(ratios) ==
    /\ keyReads = <<>> /\ request = NoRequest /\ handle = NoOperation
    /\ sentAspectRatio = "none"
    /\ TasksInit /\ PostWriterInit /\ ImageGeneratorInit
    /\ aspectRatio \in ratios
    /\ videoSubmitted = [imageFile |-> "null", aspectRatio |-> "16:9"]
\* VideoGenerator's aspectRatio starts as 16:9.
WireInit == WireInitWith({"16:9"})
\* The surfaces that are not mounted, and the environment they do not use.
OthersInit ==
    /\ LocalInit /\ geolocation = TRUE /\ geoRequest = "idle"
    /\ UpscalerInit /\ EditorInit /\ WireInit

Init ==
    /\ activeTab = "plan"
    /\ apiKey \in BOOLEAN
    /\ aistudio \in BOOLEAN
    /\ PlanInit /\ MultiInit /\ VideoInit /\ RecordInit /\ OthersInit
    /\ pc = "idle" /\ operation = NoOperation

\* A variant of getApiKey: the key is passed on without a look at it.
getApiKeyUnchecked == TRUE

\* getApiKey(): TRUE when it returns the key, FALSE when it throws because
\* process.env.API_KEY is not set.
getApiKey == apiKey

\* A new submission: what getApiKey() found so far and the request sent.
Wire(reads, req) ==
    /\ keyReads' = reads /\ request' = req /\ handle' = NoOperation

\* A new submission starts a new record.
NewRecord(held, out, thr, req) ==
    /\ outcome' = out /\ thrown' = thr /\ requests' = req
    /\ requestFailed' = FALSE
    /\ responseText' = NoText /\ consoleError' = NoText
    /\ heldAtSubmit' = held
    /\ checks' = 0 /\ waits' = 0 /\ fetches' = 0 /\ blobUrls' = 0
    /\ observed' = <<>> /\ fetchResponse' = "none"

\* ---------------------------------------------------------- MarketingPlan

setBusinessInfo(t) ==
    /\ activeTab = "plan"
    /\ businessInfo' = t
    /\ UNCHANGED <<appVars, competitorsInfo, plan, grounding, planLoading,
                   planError, multiVars, videoVars, callVars, recordVars, pollVars,
                   localVars, upscalerVars, editorVars, wireVars,
                   taskVars, writerVars, generatorVars, videoCallVars>>

setCompetitorsInfo(t) ==
    /\ activeTab = "plan"
    /\ competitorsInfo' = t
    /\ UNCHANGED <<appVars, businessInfo, plan, grounding, planLoading,
                   planError, multiVars, videoVars, callVars, recordVars, pollVars,
                   localVars, upscalerVars, editorVars, wireVars,
                   taskVars, writerVars, generatorVars, videoCallVars>>

\* A variant of PlanHandleSubmit: the plan and its sources are not cleared.
PlanHandleSubmitKeepsPlan ==
    /\ activeTab = "plan"
    /\ ~planLoading
    /\ IF trim(businessInfo) = <<>> \/ trim(competitorsInfo) = <<>>
       THEN /\ planError' = MsgPlanValidation
            /\ NewRecord(plan # Null, "rejected", NoThrow, 0)
            /\ Wire(<<>>, NoRequest)
            /\ UNCHANGED <<planLoading, pc>>
       ELSE IF getApiKey
       THEN /\ planLoading' = TRUE
            /\ planError' = NoError
            /\ pc' = "generateContent"
            /\ NewRecord(plan # Null, "pending", NoThrow, 1)
            /\ Wire(<<apiKey>>, generateMarketingPlanRequest)
       ELSE /\ planLoading' = FALSE
            /\ planError' = ErrorMessage(Err(MsgApiKeyMissing))
            /\ pc' = "idle"
            /\ NewRecord(plan # Null, "thrown", Err(MsgApiKeyMissing), 0)
            /\ Wire(<<apiKey>>, NoRequest)
    /\ UNCHANGED <<appVars, businessInfo, competitorsInfo, plan, grounding,
                   multiVars, videoVars, operation,
                   localVars, upscalerVars, editorVars,
                   taskVars, writerVars, generatorVars, videoCallVars>>

\* MarketingPlan.handleSubmit up to its await.  The submit button is disabled
\* while loading.  getApiKey() throws before any request is sent, and the
\* catch and finally blocks then run before anything else can.
PlanHandleSubmit ==
    /\ activeTab = "plan"
    /\ ~planLoading
    /\ IF trim(businessInfo) = <<>> \/ trim(competitorsInfo) = <<>>
       THEN /\ planError' = MsgPlanValidation
            /\ NewRecord(plan # Null, "rejected", NoThrow, 0)
            /\ Wire(<<>>, NoRequest)
            /\ UNCHANGED <<plan, grounding, planLoading, pc>>
       ELSE /\ plan' = Null
            /\ grounding' = NullGrounding
            /\ IF getApiKey
               THEN /\ planLoading' = TRUE
                    /\ planError' = NoError
                    /\ pc' = "generateContent"
                    /\ NewRecord(plan # Null, "pending", NoThrow, 1)
                    /\ Wire(<<apiKey>>, generateMarketingPlanRequest)
               ELSE /\ planLoading' = FALSE
                    /\ planError' = ErrorMessage(Err(MsgApiKeyMissing))
                    /\ pc' = "idle"
                    /\ NewRecord(plan # Null, "thrown", Err(MsgApiKeyMissing), 0)
                    /\ Wire(<<apiKey>>, NoRequest)
    /\ UNCHANGED <<appVars, businessInfo, competitorsInfo, multiVars, videoVars,
                   operation,
                   localVars, upscalerVars, editorVars,
                   taskVars, writerVars, generatorVars, videoCallVars>>

\* generateContent resolves: the rest of generateMarketingPlan, then the rest
\* of handleSubmit (setPlan, setGrounding or the catch block, then finally).
PlanGenerateContentResolves(text, chunks) ==
    /\ activeTab = "plan"
    /\ pc = "generateContent"
    /\ pc' = "idle"
    /\ responseText' = Text(text)
    /\ planLoading' = FALSE
    /\ LET parsed == ParsePlanText(text)
       IN  IF parsed.ok
           THEN /\ plan' = parsed.val
                /\ grounding' = parseGroundingChunks(chunks)
                /\ outcome' = "returned"
                /\ UNCHANGED <<planError, thrown, consoleError>>
           ELSE /\ consoleError' = Text(text)
                /\ thrown' = Err(MsgPlanFormat)
                /\ planError' = ErrorMessage(Err(MsgPlanFormat))
                /\ outcome' = "thrown"
                /\ UNCHANGED <<plan, grounding>>
    /\ UNCHANGED <<appVars, businessInfo, competitorsInfo, multiVars, videoVars,
                   operation, requests, requestFailed, heldAtSubmit, pollVars,
                   localVars, upscalerVars, editorVars, wireVars,
                   taskVars, writerVars, generatorVars, videoCallVars>>

\* generateContent rejects: the error passes through generateMarketingPlan to
\* the catch block of handleSubmit.
PlanGenerateContentRejects(err) ==
    /\ activeTab = "plan"
    /\ pc = "generateContent"
    /\ pc' = "idle"
    /\ requestFailed' = TRUE
    /\ thrown' = err
    /\ outcome' = "thrown"
    /\ planError' = ErrorMessage(err)
    /\ planLoading' = FALSE
    /\ UNCHANGED <<appVars, businessInfo, competitorsInfo, plan, grounding,
                   multiVars, videoVars, operation, requests, responseText,
                   consoleError, heldAtSubmit, pollVars,
                   localVars, upscalerVars, editorVars, wireVars,
                   taskVars, writerVars, generatorVars, videoCallVars>>

\* ------------------------------------------------------- MultiPostManager

setPostContent(t) ==
    /\ activeTab = "multi-post"
    /\ postContent' = t
    /\ UNCHANGED <<appVars, planVars, selectedPlatforms, recommendations,
                   multiLoading, multiError, videoVars, callVars, recordVars,
                   pollVars,
                   localVars, upscalerVars, editorVars, wireVars,
                   taskVars, writerVars, generatorVars, videoCallVars>>

Includes(list, x) == \E i \in 1..Len(list) : list[i] = x
Filter(list, x) == SelectSeq(list, LAMBDA p : p # x)

handlePlatformChange(platform) ==
    /\ activeTab = "multi-post"
    /\ selectedPlatforms' =
           IF Includes(selectedPlatforms, platform)
           THEN Filter(selectedPlatforms, platform)
           ELSE Append(selectedPlatforms, platform)
    /\ UNCHANGED <<appVars, planVars, postContent, recommendations,
                   multiLoading, multiError, videoVars, callVars, recordVars,
                   pollVars,
                   localVars, upscalerVars, editorVars, wireVars,
                   taskVars, writerVars, generatorVars, videoCallVars>>

\* handleGetRecommendations up to its await.  The button is disabled while
\* loading, while the content is blank and while no platform is selected.
handleGetRecommendations ==
    /\ activeTab = "multi-post"
    /\ ~multiLoading /\ trim(postContent) # <<>> /\ Len(selectedPlatforms) # 0
    /\ IF trim(postContent) = <<>> \/ Len(selectedPlatforms) = 0
       THEN /\ multiError' = MsgRecommendationsValidation
            /\ NewRecord(recommendations # Null, "rejected", NoThrow, 0)
            /\ Wire(<<>>, NoRequest)
            /\ UNCHANGED <<recommendations, multiLoading, pc>>
       ELSE /\ recommendations' = Null
            /\ IF getApiKey
               THEN /\ multiLoading' = TRUE
                    /\ multiError' = NoError
                    /\ pc' = "generateContent"
                    /\ NewRecord(recommendations # Null, "pending", NoThrow, 1)
                    /\ Wire(<<apiKey>>, getPostingRecommendationsRequest)
               ELSE /\ multiLoading' = FALSE
                    /\ multiError' = ErrorMessage(Err(MsgApiKeyMissing))
                    /\ pc' = "idle"
                    /\ NewRecord(recommendations # Null, "thrown",
                                 Err(MsgApiKeyMissing), 0)
                    /\ Wire(<<apiKey>>, NoRequest)
    /\ UNCHANGED <<appVars, planVars, postContent, selectedPlatforms, videoVars,
                   operation,
                   localVars, upscalerVars, editorVars,
                   taskVars, writerVars, generatorVars, videoCallVars>>

\* generateContent resolves: the rest of getPostingRecommendations, then the
\* rest of handleGetRecommendations.
MultiGenerateContentResolves(text) ==
    /\ activeTab = "multi-post"
    /\ pc = "generateContent"
    /\ pc' = "idle"
    /\ responseText' = Text(text)
    /\ multiLoading' = FALSE
    /\ LET parsed == ParseRecommendationsText(text)
       IN  IF parsed.ok
           THEN /\ recommendations' = parsed.val
                /\ outcome' = "returned"
                /\ UNCHANGED <<multiError, thrown, consoleError>>
           ELSE /\ consoleError' = Text(text)
                /\ thrown' = Err(MsgRecommendationsFormat)
                /\ multiError' = ErrorMessage(Err(MsgRecommendationsFormat))
                /\ outcome' = "thrown"
                /\ UNCHANGED recommendations
    /\ UNCHANGED <<appVars, planVars, postContent, selectedPlatforms, videoVars,
                   operation, requests, requestFailed, heldAtSubmit, pollVars,
                   localVars, upscalerVars, editorVars, wireVars,
                   taskVars, writerVars, generatorVars, videoCallVars>>

MultiGenerateContentRejects(err) ==
    /\ activeTab = "multi-post"
    /\ pc = "generateContent"
    /\ pc' = "idle"
    /\ requestFailed' = TRUE
    /\ thrown' = err
    /\ outcome' = "thrown"
    /\ multiError' = ErrorMessage(err)
    /\ multiLoading' = FALSE
    /\ UNCHANGED <<appVars, planVars, postContent, selectedPlatforms,
                   recommendations, videoVars, operation, requests,
                   responseText, consoleError, heldAtSubmit, pollVars,
                   localVars, upscalerVars, editorVars, wireVars,
                   taskVars, writerVars, generatorVars, videoCallVars>>

\* --------------------------------------------------------- VideoGenerator

\* The generation form is rendered: the key check is over and a key is selected.
FormShown == activeTab = "video" /\ ~checkingApiKey /\ apiKeySelected

\* The mount effect: checkKey up to its await.
checkKey ==
    /\ activeTab = "video"
    /\ keyDialog = "mount"
    /\ IF aistudio
       THEN /\ keyDialog' = "hasSelectedApiKey"
            /\ UNCHANGED <<apiKeySelected, checkingApiKey>>
       ELSE /\ apiKeySelected' = TRUE
            /\ checkingApiKey' = FALSE
            /\ keyDialog' = "idle"
    /\ UNCHANGED <<appVars, planVars, multiVars, imageFile, previewUrl,
                   pendingReads, generatedVideoUrl, prompt, videoLoading,
                   videoError, callVars, recordVars, pollVars,
                   localVars, upscalerVars, editorVars, wireVars,
                   taskVars, writerVars, generatorVars, videoCallVars>>

HasSelectedApiKeyResolves(hasKey) ==
    /\ keyDialog = "hasSelectedApiKey"
    /\ apiKeySelected' = hasKey
    /\ checkingApiKey' = FALSE
    /\ keyDialog' = "idle"
    /\ UNCHANGED <<appVars, planVars, multiVars, imageFile, previewUrl,
                   pendingReads, generatedVideoUrl, prompt, videoLoading,
                   videoError, callVars, recordVars, pollVars,
                   localVars, upscalerVars, editorVars, wireVars,
                   taskVars, writerVars, generatorVars, videoCallVars>>

HasSelectedApiKeyRejectsAsNoKey ==
    /\ keyDialog = "hasSelectedApiKey"
    /\ apiKeySelected' = FALSE
    /\ checkingApiKey' = FALSE
    /\ keyDialog' = "idle"
    /\ UNCHANGED <<appVars, planVars, multiVars, imageFile, previewUrl,
                   pendingReads, generatedVideoUrl, prompt, videoLoading,
                   videoError, callVars, recordVars, pollVars,
                   localVars, upscalerVars, editorVars, wireVars,
                   taskVars, writerVars, generatorVars, videoCallVars>>
HasSelectedApiKeyRejects ==
    /\ keyDialog = "hasSelectedApiKey"
    /\ apiKeySelected' = TRUE
    /\ checkingApiKey' = FALSE
    /\ keyDialog' = "idle"
    /\ UNCHANGED <<appVars, planVars, multiVars, imageFile, previewUrl,
                   pendingReads, generatedVideoUrl, prompt, videoLoading,
                   videoError, callVars, recordVars, pollVars,
                   localVars, upscalerVars, editorVars, wireVars,
                   taskVars, writerVars, generatorVars, videoCallVars>>

\* handleSelectKey up to its await; the button is on the "API Key Required" card.
handleSelectKey ==
    /\ activeTab = "video" /\ ~checkingApiKey /\ ~apiKeySelected
    /\ keyDialog = "idle"
    /\ IF aistudio
       THEN /\ keyDialog' = "openSelectKey"
            /\ UNCHANGED videoError
       ELSE /\ videoError' = MsgSelectKeyUnavailable
            /\ UNCHANGED keyDialog
    /\ UNCHANGED <<appVars, planVars, multiVars, apiKeySelected, checkingApiKey,
                   imageFile, previewUrl, pendingReads, generatedVideoUrl,
                   prompt, videoLoading, callVars, recordVars, pollVars,
                   localVars, upscalerVars, editorVars, wireVars,
                   taskVars, writerVars, generatorVars, videoCallVars>>

\* The host's dialog closes; the host may have put a key into the environment.
OpenSelectKeyResolves(key) ==
    /\ keyDialog = "openSelectKey"
    /\ keyDialog' = "idle"
    /\ apiKeySelected' = TRUE
    /\ apiKey' = key
    /\ UNCHANGED <<activeTab, aistudio, planVars, multiVars, checkingApiKey,
                   imageFile, previewUrl, pendingReads, generatedVideoUrl,
                   prompt, videoLoading, videoError, callVars, recordVars,
                   pollVars,
                   localVars, upscalerVars, editorVars, wireVars,
                   taskVars, writerVars, generatorVars, videoCallVars>>

\* A variant of the rejection: a key is assumed, as checkKey does.
OpenSelectKeyRejectsAssumesKey ==
    /\ keyDialog = "openSelectKey"
    /\ keyDialog' = "idle"
    /\ videoError' = MsgSelectKeyFailed
    /\ apiKeySelected' = TRUE
    /\ UNCHANGED <<appVars, planVars, multiVars, checkingApiKey,
                   imageFile, previewUrl, pendingReads, generatedVideoUrl,
                   prompt, videoLoading, callVars, recordVars, pollVars,
                   localVars, upscalerVars, editorVars, wireVars,
                   taskVars, writerVars, generatorVars, videoCallVars>>

OpenSelectKeyRejects ==
    /\ keyDialog = "openSelectKey"
    /\ keyDialog' = "idle"
    /\ videoError' = MsgSelectKeyFailed
    /\ UNCHANGED <<appVars, planVars, multiVars, apiKeySelected, checkingApiKey,
                   imageFile, previewUrl, pendingReads, generatedVideoUrl,
                   prompt, videoLoading, callVars, recordVars, pollVars,
                   localVars, upscalerVars, editorVars, wireVars,
                   taskVars, writerVars, generatorVars, videoCallVars>>

\* The radio buttons of the form offer 16:9 and 9:16.
VideoAspectRatios == {"16:9", "9:16"}
setAspectRatio(ratio) ==
    /\ FormShown
    /\ aspectRatio' = ratio
    /\ UNCHANGED <<appVars, planVars, multiVars, videoVars, callVars,
                   recordVars, pollVars, localVars, upscalerVars, editorVars,
                   wireVars, taskVars, writerVars, generatorVars,
                   sentAspectRatio, videoSubmitted>>

setPrompt(t) ==
    /\ FormShown
    /\ prompt' = t
    /\ UNCHANGED <<appVars, planVars, multiVars, apiKeySelected, checkingApiKey,
                   keyDialog, imageFile, previewUrl, pendingReads,
                   generatedVideoUrl, videoLoading, videoError, callVars,
                   recordVars, pollVars,
                   localVars, upscalerVars, editorVars, wireVars,
                   taskVars, writerVars, generatorVars, videoCallVars>>

\* handleFileChange up to its await of fileToDataUrl.
handleFileChange(file) ==
    /\ FormShown
    /\ imageFile' = file
    /\ generatedVideoUrl' = "null"
    /\ pendingReads' = pendingReads \cup {file}
    /\ UNCHANGED <<appVars, planVars, multiVars, apiKeySelected, checkingApiKey,
                   keyDialog, previewUrl, prompt, videoLoading, videoError,
                   callVars, recordVars, pollVars,
                   localVars, upscalerVars, editorVars, wireVars,
                   taskVars, writerVars, generatorVars, videoCallVars>>

FileToDataUrlResolves(file) ==
    /\ file \in pendingReads
    /\ pendingReads' = pendingReads \ {file}
    /\ previewUrl' = file
    /\ UNCHANGED <<appVars, planVars, multiVars, apiKeySelected, checkingApiKey,
                   keyDialog, imageFile, generatedVideoUrl, prompt,
                   videoLoading, videoError, callVars, recordVars, pollVars,
                   localVars, upscalerVars, editorVars, wireVars,
                   taskVars, writerVars, generatorVars, videoCallVars>>

FileToDataUrlRejects(file) ==
    /\ file \in pendingReads
    /\ pendingReads' = pendingReads \ {file}
    /\ videoError' = MsgPreviewFailed
    /\ UNCHANGED <<appVars, planVars, multiVars, apiKeySelected, checkingApiKey,
                   keyDialog, imageFile, previewUrl, generatedVideoUrl, prompt,
                   videoLoading, callVars, recordVars, pollVars,
                   localVars, upscalerVars, editorVars, wireVars,
                   taskVars, writerVars, generatorVars, videoCallVars>>

\* The catch and finally blocks of VideoGenerator.handleSubmit.
VideoCatch(err) ==
    /\ IF includes(ErrorMessage(err), InvalidCredentialNeedle)
       THEN /\ videoError' = MsgInvalidKey
            /\ apiKeySelected' = FALSE
       ELSE /\ videoError' = ErrorMessage(err)
            /\ UNCHANGED apiKeySelected
    /\ videoLoading' = FALSE
    /\ pc' = "idle"
    /\ thrown' = err
    /\ outcome' = "thrown"

\* VideoGenerator.handleSubmit up to its await of fileToBase64.  The submit
\* button is disabled while loading and while no image is selected.
VideoHandleSubmit ==
    /\ FormShown
    /\ ~videoLoading /\ imageFile # "null"
    /\ IF imageFile = "null" \/ trim(prompt) = <<>>
       THEN /\ videoError' = MsgVideoValidation
            /\ NewRecord(generatedVideoUrl # "null", "rejected", NoThrow, 0)
            /\ Wire(<<>>, NoRequest)
            /\ UNCHANGED <<videoLoading, generatedVideoUrl, pc,
                           videoSubmitted>>
       ELSE /\ videoLoading' = TRUE
            /\ videoError' = NoError
            /\ generatedVideoUrl' = "null"
            /\ pc' = "fileToBase64"
            /\ NewRecord(generatedVideoUrl # "null", "pending", NoThrow, 0)
            /\ Wire(<<>>, NoRequest)
            /\ videoSubmitted' =
                   [imageFile |-> imageFile, aspectRatio |-> aspectRatio]
    /\ operation' = NoOperation
    /\ UNCHANGED <<appVars, planVars, multiVars, apiKeySelected, checkingApiKey,
                   keyDialog, imageFile, previewUrl, pendingReads, prompt,
                   localVars, upscalerVars, editorVars,
                   taskVars, writerVars, generatorVars, aspectRatio,
                   sentAspectRatio>>

\* A variant: the aspect ratio is passed on as it is.
generateVideosAspectRatioAsGiven(ratio) == ratio

\* The aspectRatio of the config generateVideo gives generateVideos.
generateVideosAspectRatio(ratio) == IF ratio = "1:1" THEN "16:9" ELSE ratio

\* fileToBase64 resolves and generateVideo starts: getApiKey(), then the
\* generateVideos request.
FileToBase64Resolves ==
    /\ pc = "fileToBase64"
    /\ keyReads' = Append(keyReads, apiKey)
    /\ request' = IF getApiKey THEN generateVideosRequest ELSE request
    /\ sentAspectRatio' =
           IF getApiKey
           THEN generateVideosAspectRatio(videoSubmitted.aspectRatio)
           ELSE sentAspectRatio
    /\ IF getApiKey
       THEN /\ pc' = "generateVideos"
            /\ requests' = requests + 1
            /\ UNCHANGED <<videoError, apiKeySelected, videoLoading, thrown,
                           outcome>>
       ELSE /\ VideoCatch(Err(MsgApiKeyMissing))
            /\ UNCHANGED requests
    /\ UNCHANGED <<appVars, planVars, multiVars, checkingApiKey, keyDialog,
                   imageFile, previewUrl, pendingReads, generatedVideoUrl,
                   prompt, operation, requestFailed, responseText, consoleError,
                   heldAtSubmit, pollVars,
                   localVars, upscalerVars, editorVars, handle,
                   taskVars, writerVars, generatorVars, aspectRatio,
                   videoSubmitted>>

FileToBase64Rejects(err) ==
    /\ pc = "fileToBase64"
    /\ VideoCatch(err)
    /\ UNCHANGED <<appVars, planVars, multiVars, checkingApiKey, keyDialog,
                   imageFile, previewUrl, pendingReads, generatedVideoUrl,
                   prompt, operation, requests, requestFailed, responseText,
                   consoleError, heldAtSubmit, pollVars,
                   localVars, upscalerVars, editorVars, wireVars,
                   taskVars, writerVars, generatorVars, videoCallVars>>

\* The operations the backend may answer with: not done, done with a result
\* URI, done without one, done with an empty one, and not done but already
\* carrying a URI (a second operation value that a status check may pass).
Operations ==
    {[done |-> FALSE, uri |-> Absent], [done |-> TRUE, uri |-> "uri"],
     [done |-> TRUE, uri |-> Absent], [done |-> TRUE, uri |-> ""],
     [done |-> FALSE, uri |-> "uri"]}

\* Variants of WhileCondition: a do-while loop, which polls once before it
\* looks at the submission's response; and a loop that gives up after two
\* status checks.
WhileConditionDoWhile(op) == ~op.done \/ observed = <<>>
WhileConditionGivesUp(op) == ~op.done /\ checks < 2

\* while (!operation.done)
WhileCondition(op) == ~op.done

\* A variant of NoDownloadLink: the result URI is not looked at.
NoDownloadLinkUnchecked(op) == FALSE

\* !downloadLink, for operation.response?.generatedVideos?.[0]?.video?.uri
NoDownloadLink(op) == op.uri \in {Absent, ""}

\* A variant of NotOk: the response status is not looked at.
NotOkUnchecked(ok) == FALSE

\* !videoResponse.ok
NotOk(ok) == ~ok

\* generateVideo from the test of its while loop on, with the operation op
\* just received, up to the next await.
PollOrFinish(op) ==
    /\ operation' = op
    /\ observed' = Append(observed, op.done)
    /\ IF WhileCondition(op)
       THEN /\ pc' = "setTimeout"
            /\ waits' = waits + 1
            /\ UNCHANGED <<fetches, requests, videoError, apiKeySelected,
                           videoLoading, thrown, outcome, keyReads>>
       ELSE IF NoDownloadLink(op)
       THEN /\ VideoCatch(Err(MsgNoUri))
            /\ UNCHANGED <<waits, fetches, requests, keyReads>>
       ELSE IF ~getApiKey
       THEN /\ VideoCatch(Err(MsgApiKeyMissing))
            /\ keyReads' = Append(keyReads, apiKey)
            /\ UNCHANGED <<waits, fetches, requests>>
       ELSE /\ pc' = "fetch"
            /\ keyReads' = Append(keyReads, apiKey)
            /\ fetches' = fetches + 1
            /\ requests' = requests + 1
            /\ UNCHANGED <<waits, videoError, apiKeySelected, videoLoading,
                           thrown, outcome>>

GenerateVideosResolves(op) ==
    /\ pc = "generateVideos"
    /\ PollOrFinish(op)
    /\ UNCHANGED <<appVars, planVars, multiVars, checkingApiKey, keyDialog,
                   imageFile, previewUrl, pendingReads, generatedVideoUrl,
                   prompt, requestFailed, responseText, consoleError,
                   heldAtSubmit, checks, blobUrls, fetchResponse,
                   localVars, upscalerVars, editorVars, request, handle,
                   taskVars, writerVars, generatorVars, videoCallVars>>

GenerateVideosRejects(err) ==
    /\ pc = "generateVideos"
    /\ requestFailed' = TRUE
    /\ VideoCatch(err)
    /\ UNCHANGED <<appVars, planVars, multiVars, checkingApiKey, keyDialog,
                   imageFile, previewUrl, pendingReads, generatedVideoUrl,
                   prompt, operation, requests, responseText, consoleError,
                   heldAtSubmit, pollVars,
                   localVars, upscalerVars, editorVars, wireVars,
                   taskVars, writerVars, generatorVars, videoCallVars>>

\* The 10-second timer fires and the status check is issued.
TimerFiresFirstHandle ==
    /\ pc = "setTimeout"
    /\ pc' = "getVideosOperation"
    /\ handle' = IF checks = 0 THEN operation ELSE handle
    /\ checks' = checks + 1
    /\ requests' = requests + 1
    /\ UNCHANGED <<appVars, planVars, multiVars, videoVars, operation, outcome,
                   thrown, requestFailed, responseText, consoleError,
                   heldAtSubmit, waits, fetches, blobUrls, observed, fetchResponse,
                   localVars, upscalerVars, editorVars, keyReads, request,
                   taskVars, writerVars, generatorVars, videoCallVars>>
TimerFires ==
    /\ pc = "setTimeout"
    /\ pc' = "getVideosOperation"
    /\ handle' = operation
    /\ checks' = checks + 1
    /\ requests' = requests + 1
    /\ UNCHANGED <<appVars, planVars, multiVars, videoVars, operation, outcome,
                   thrown, requestFailed, responseText, consoleError,
                   heldAtSubmit, waits, fetches, blobUrls, observed, fetchResponse,
                   localVars, upscalerVars, editorVars, keyReads, request,
                   taskVars, writerVars, generatorVars, videoCallVars>>

GetVideosOperationResolves(op) ==
    /\ pc = "getVideosOperation"
    /\ op.done \/ checks < MaxChecks
    /\ PollOrFinish(op)
    /\ UNCHANGED <<appVars, planVars, multiVars, checkingApiKey, keyDialog,
                   imageFile, previewUrl, pendingReads, generatedVideoUrl,
                   prompt, requestFailed, responseText, consoleError,
                   heldAtSubmit, checks, blobUrls, fetchResponse,
                   localVars, upscalerVars, editorVars, request, handle,
                   taskVars, writerVars, generatorVars, videoCallVars>>

\* A variant of GetVideosOperationRejects: a failed status check is retried
\* after another wait.
GetVideosOperationRetries(err) ==
    /\ pc = "getVideosOperation"
    /\ checks < MaxChecks
    /\ requestFailed' = TRUE
    /\ pc' = "setTimeout"
    /\ waits' = waits + 1
    /\ UNCHANGED <<appVars, planVars, multiVars, videoVars, operation, outcome,
                   thrown, requests, responseText, consoleError, heldAtSubmit,
                   checks, fetches, blobUrls, observed, fetchResponse,
                   localVars, upscalerVars, editorVars, wireVars,
                   taskVars, writerVars, generatorVars, videoCallVars>>

GetVideosOperationRejects(err) ==
    /\ pc = "getVideosOperation"
    /\ requestFailed' = TRUE
    /\ VideoCatch(err)
    /\ UNCHANGED <<appVars, planVars, multiVars, checkingApiKey, keyDialog,
                   imageFile, previewUrl, pendingReads, generatedVideoUrl,
                   prompt, operation, requests, responseText, consoleError,
                   heldAtSubmit, pollVars,
                   localVars, upscalerVars, editorVars, wireVars,
                   taskVars, writerVars, generatorVars, videoCallVars>>

\* fetch resolves with a response whose ok flag is ok.
FetchResolves(ok) ==
    /\ pc = "fetch"
    /\ fetchResponse' = IF ok THEN "ok" ELSE "not ok"
    /\ requestFailed' = ~ok
    /\ IF NotOk(ok)
       THEN VideoCatch(Err(MsgDownloadFailed))
       ELSE /\ pc' = "blob"
            /\ UNCHANGED <<videoError, apiKeySelected, videoLoading, thrown,
                           outcome>>
    /\ UNCHANGED <<appVars, planVars, multiVars, checkingApiKey, keyDialog,
                   imageFile, previewUrl, pendingReads, generatedVideoUrl,
                   prompt, operation, requests, responseText, consoleError,
                   heldAtSubmit, checks, waits, fetches, blobUrls, observed,
                   localVars, upscalerVars, editorVars, wireVars,
                   taskVars, writerVars, generatorVars, videoCallVars>>

FetchRejects(err) ==
    /\ pc = "fetch"
    /\ fetchResponse' = "rejected"
    /\ requestFailed' = TRUE
    /\ VideoCatch(err)
    /\ UNCHANGED <<appVars, planVars, multiVars, checkingApiKey, keyDialog,
                   imageFile, previewUrl, pendingReads, generatedVideoUrl,
                   prompt, operation, requests, responseText, consoleError,
                   heldAtSubmit, checks, waits, fetches, blobUrls, observed,
                   localVars, upscalerVars, editorVars, wireVars,
                   taskVars, writerVars, generatorVars, videoCallVars>>

\* The body is read, URL.createObjectURL makes the blob reference, generateVideo
\* returns it and handleSubmit stores it; then the finally block.
BlobResolves ==
    /\ pc = "blob"
    /\ pc' = "idle"
    /\ blobUrls' = blobUrls + 1
    /\ generatedVideoUrl' = "blob:video"
    /\ videoLoading' = FALSE
    /\ outcome' = "returned"
    /\ UNCHANGED <<appVars, planVars, multiVars, apiKeySelected, checkingApiKey,
                   keyDialog, imageFile, previewUrl, pendingReads, prompt,
                   videoError, operation, thrown, requests, requestFailed,
                   responseText, consoleError, heldAtSubmit, checks, waits,
                   fetches, observed, fetchResponse,
                   localVars, upscalerVars, editorVars, wireVars,
                   taskVars, writerVars, generatorVars, videoCallVars>>

BlobRejects(err) ==
    /\ pc = "blob"
    /\ requestFailed' = TRUE
    /\ VideoCatch(err)
    /\ UNCHANGED <<appVars, planVars, multiVars, checkingApiKey, keyDialog,
                   imageFile, previewUrl, pendingReads, generatedVideoUrl,
                   prompt, operation, requests, responseText, consoleError,
                   heldAtSubmit, pollVars,
                   localVars, upscalerVars, editorVars, wireVars,
                   taskVars, writerVars, generatorVars, videoCallVars>>

\* ------------------------------------------- LocalInsights, useGeolocation

\* useGeolocation's mount effect: fetchLocation up to the browser's answer.
fetchLocation ==
    /\ activeTab = "local"
    /\ geoRequest = "mount"
    /\ IF ~geolocation
       THEN /\ geo' = [loading |-> FALSE, error |-> "not supported",
                       data |-> "null"]
            /\ geoRequest' = "idle"
       ELSE /\ geoRequest' = "getCurrentPosition"
            /\ UNCHANGED geo
    /\ UNCHANGED <<appVars, planVars, multiVars, videoVars, callVars,
                   recordVars, pollVars, geolocation, query, insights,
                   localGrounding, localLoading, localError, chunksReceived,
                   upscalerVars, editorVars, wireVars,
                   taskVars, writerVars, generatorVars, videoCallVars>>

\* getCurrentPosition's success callback.
PositionSuccess(position) ==
    /\ geoRequest = "getCurrentPosition"
    /\ geoRequest' = "idle"
    /\ geo' = [loading |-> FALSE, error |-> "null", data |-> position]
    /\ UNCHANGED <<appVars, planVars, multiVars, videoVars, callVars,
                   recordVars, pollVars, geolocation, query, insights,
                   localGrounding, localLoading, localError, chunksReceived,
                   upscalerVars, editorVars, wireVars,
                   taskVars, writerVars, generatorVars, videoCallVars>>

\* A variant of the error callback: loading is left as it is.
PositionErrorKeepsLoading(error) ==
    /\ geoRequest = "getCurrentPosition"
    /\ geoRequest' = "idle"
    /\ geo' = [geo EXCEPT !.error = error]
    /\ UNCHANGED <<appVars, planVars, multiVars, videoVars, callVars,
                   recordVars, pollVars, geolocation, query, insights,
                   localGrounding, localLoading, localError, chunksReceived,
                   upscalerVars, editorVars, wireVars,
                   taskVars, writerVars, generatorVars, videoCallVars>>

\* getCurrentPosition's error callback.
PositionError(error) ==
    /\ geoRequest = "getCurrentPosition"
    /\ geoRequest' = "idle"
    /\ geo' = [loading |-> FALSE, error |-> error, data |-> "null"]
    /\ UNCHANGED <<appVars, planVars, multiVars, videoVars, callVars,
                   recordVars, pollVars, geolocation, query, insights,
                   localGrounding, localLoading, localError, chunksReceived,
                   upscalerVars, editorVars, wireVars,
                   taskVars, writerVars, generatorVars, videoCallVars>>

\* The form is rendered only when geoData is there.
LocalFormShown == activeTab = "local" /\ geo.data # "null"

setQuery(t) ==
    /\ LocalFormShown
    /\ query' = t
    /\ UNCHANGED <<appVars, planVars, multiVars, videoVars, callVars,
                   recordVars, pollVars, geolocation, geo, geoRequest,
                   insights, localGrounding, localLoading, localError,
                   chunksReceived, upscalerVars, editorVars, wireVars,
                   taskVars, writerVars, generatorVars, videoCallVars>>

LocalHeld == insights.present \/ ~localGrounding.isNull

\* LocalInsights.handleSubmit up to its await; the submit button is disabled
\* while loading.  getLocalInsights starts with getApiKey().
LocalHandleSubmit ==
    /\ LocalFormShown
    /\ ~localLoading
    /\ IF trim(query) = <<>>
       THEN /\ localError' = MsgQueryValidation
            /\ NewRecord(LocalHeld, "rejected", NoThrow, 0)
            /\ Wire(<<>>, NoRequest)
            /\ UNCHANGED <<insights, localGrounding, localLoading, pc>>
       ELSE IF geo.data = "null"
       THEN /\ localError' = MsgNoLocation
            /\ NewRecord(LocalHeld, "rejected", NoThrow, 0)
            /\ Wire(<<>>, NoRequest)
            /\ UNCHANGED <<insights, localGrounding, localLoading, pc>>
       ELSE /\ insights' = NoText
            /\ localGrounding' = NullGrounding
            /\ IF getApiKey
               THEN /\ localLoading' = TRUE
                    /\ localError' = NoError
                    /\ pc' = "generateContent"
                    /\ NewRecord(LocalHeld, "pending", NoThrow, 1)
                    /\ Wire(<<apiKey>>, getLocalInsightsRequest)
               ELSE /\ localLoading' = FALSE
                    /\ localError' = ErrorMessage(Err(MsgApiKeyMissing))
                    /\ pc' = "idle"
                    /\ NewRecord(LocalHeld, "thrown", Err(MsgApiKeyMissing), 0)
                    /\ Wire(<<apiKey>>, NoRequest)
    /\ chunksReceived' = NoChunks
    /\ UNCHANGED <<appVars, planVars, multiVars, videoVars, operation,
                   geolocation, geo, geoRequest, query, upscalerVars,
                   editorVars,
                   taskVars, writerVars, generatorVars, videoCallVars>>

\* generateContent resolves: the rest of getLocalInsights (the chunks of the
\* first candidate go through parseGroundingChunks), then setInsights,
\* setGrounding and the finally block.
LocalGenerateContentResolves(text, chunks) ==
    /\ activeTab = "local"
    /\ pc = "generateContent"
    /\ pc' = "idle"
    /\ responseText' = Text(text)
    /\ chunksReceived' = chunks
    /\ insights' = Text(text)
    /\ localGrounding' = parseGroundingChunks(chunks)
    /\ localLoading' = FALSE
    /\ outcome' = "returned"
    /\ UNCHANGED <<appVars, planVars, multiVars, videoVars, operation, thrown,
                   requests, requestFailed, consoleError, heldAtSubmit,
                   pollVars, geolocation, geo, geoRequest, query, localError,
                   upscalerVars, editorVars, wireVars,
                   taskVars, writerVars, generatorVars, videoCallVars>>

LocalGenerateContentRejects(err) ==
    /\ activeTab = "local"
    /\ pc = "generateContent"
    /\ pc' = "idle"
    /\ requestFailed' = TRUE
    /\ thrown' = err
    /\ outcome' = "thrown"
    /\ localError' = ErrorMessage(err)
    /\ localLoading' = FALSE
    /\ UNCHANGED <<appVars, planVars, multiVars, videoVars, operation,
                   requests, responseText, consoleError, heldAtSubmit,
                   pollVars, geolocation, geo, geoRequest, query, insights,
                   localGrounding, chunksReceived, upscalerVars, editorVars,
                   wireVars,
                   taskVars, writerVars, generatorVars, videoCallVars>>

\* ----------------------------------------------------------- ImageUpscaler

\* editImage after its generateContent call resolved: the data of the first
\* part with inlineData, or a throw.
RECURSIVE FirstInlineData(_)
FirstInlineData(parts) ==
    IF parts = <<>> THEN ""
    ELSE IF Head(parts).inlineData THEN Head(parts).data
    ELSE FirstInlineData(Tail(parts))
editImage(response) ==
    IF ~response.candidates
    THEN [thrown |-> Err(MsgTypeError), data |-> ""]
    ELSE IF FirstInlineData(response.parts) = ""
    THEN [thrown |-> Err(MsgNoImage), data |-> ""]
    ELSE [thrown |-> NoThrow, data |-> FirstInlineData(response.parts)]

\* `data:${mimeType};base64,${data}`
DataUrl(mimeType, data) == <<"data:", mimeType, ";base64,", data>>

UpscalerShown == activeTab = "upscale"
UpscalerHeld == upscaledImageUrl # NoUrl

\* handleFileChange up to its await of fileToDataUrl; only the later version
\* clears the error.
UpscalerHandleFileChange(file) ==
    /\ UpscalerShown
    /\ upscalerImageFile' = file
    /\ upscaledImageUrl' = NoUrl
    /\ upscalerError' =
           IF upscalerVersion = "part_002" THEN NoError ELSE upscalerError
    /\ upscalerReads' = upscalerReads \cup {file}
    /\ UNCHANGED <<appVars, planVars, multiVars, videoVars, callVars,
                   recordVars, pollVars, localVars, editorVars, wireVars,
                   originalImageUrl, upscalerLoading, upscalerVersion,
                   upscalerSubmitted, imageResponse,
                   imageReturned,
                   taskVars, writerVars, generatorVars, videoCallVars>>

UpscalerFileToDataUrlResolves(file) ==
    /\ UpscalerShown
    /\ file \in upscalerReads
    /\ upscalerReads' = upscalerReads \ {file}
    /\ originalImageUrl' = file.name
    /\ UNCHANGED <<appVars, planVars, multiVars, videoVars, callVars,
                   recordVars, pollVars, localVars, editorVars, wireVars,
                   upscalerImageFile, upscaledImageUrl, upscalerLoading,
                   upscalerError, upscalerVersion, upscalerSubmitted,
                   imageResponse, imageReturned,
                   taskVars, writerVars, generatorVars, videoCallVars>>

UpscalerFileToDataUrlRejects(file) ==
    /\ UpscalerShown
    /\ file \in upscalerReads
    /\ upscalerReads' = upscalerReads \ {file}
    /\ upscalerError' = MsgPreviewFailed
    /\ UNCHANGED <<appVars, planVars, multiVars, videoVars, callVars,
                   recordVars, pollVars, localVars, editorVars, wireVars,
                   upscalerImageFile, originalImageUrl, upscaledImageUrl,
                   upscalerLoading, upscalerVersion, upscalerSubmitted,
                   imageResponse, imageReturned,
                   taskVars, writerVars, generatorVars, videoCallVars>>

\* The validation of handleSubmit: the message to show, or NoError when the
\* submission goes on.  The earlier version checks only that a file is chosen.
UpscalerValidation(file) ==
    IF file = NoFile THEN MsgUpscaleValidation
    ELSE IF upscalerVersion = "part_001" THEN NoError
    ELSE IF file.size > MAX_FILE_SIZE_BYTES THEN MsgFileTooLarge
    ELSE IF getMimeType(file) \notin supportedMimeTypes THEN MsgUnsupportedType
    ELSE NoError

\* handleSubmit up to its await of fileToBase64.  The submit button is
\* disabled while loading and while no image is selected.
UpscalerHandleSubmit ==
    /\ UpscalerShown
    /\ ~upscalerLoading /\ upscalerImageFile # NoFile
    /\ IF UpscalerValidation(upscalerImageFile) # NoError
       THEN /\ upscalerError' = UpscalerValidation(upscalerImageFile)
            /\ NewRecord(UpscalerHeld, "rejected", NoThrow, 0)
            /\ UNCHANGED <<upscalerLoading, upscaledImageUrl,
                           upscalerSubmitted, pc>>
       ELSE /\ upscalerLoading' = TRUE
            /\ upscalerError' = NoError
            /\ upscaledImageUrl' = NoUrl
            /\ upscalerSubmitted' = upscalerImageFile
            /\ pc' = "upscaler:fileToBase64"
            /\ NewRecord(UpscalerHeld, "pending", NoThrow, 0)
    /\ Wire(<<>>, NoRequest)
    /\ imageResponse' = NoImageResponse
    /\ imageReturned' = ""
    /\ UNCHANGED <<appVars, planVars, multiVars, videoVars, operation,
                   localVars, editorVars, upscalerImageFile, originalImageUrl,
                   upscalerReads, upscalerVersion,
                   taskVars, writerVars, generatorVars, videoCallVars>>

\* The catch and finally blocks of ImageUpscaler.handleSubmit.
UpscalerCatch(err) ==
    /\ upscalerError' = IF err.isError THEN err.message ELSE MsgUpscaleFailed
    /\ upscalerLoading' = FALSE
    /\ pc' = "idle"
    /\ thrown' = err
    /\ outcome' = "thrown"

\* fileToBase64 resolves and editImage starts: getApiKey(), then the
\* generateContent request.
UpscalerFileToBase64Resolves ==
    /\ UpscalerShown
    /\ pc = "upscaler:fileToBase64"
    /\ keyReads' = <<apiKey>>
    /\ IF getApiKey
       THEN /\ pc' = "upscaler:generateContent"
            /\ requests' = requests + 1
            /\ request' = editImageRequest
            /\ UNCHANGED <<upscalerError, upscalerLoading, thrown, outcome>>
       ELSE /\ UpscalerCatch(Err(MsgApiKeyMissing))
            /\ UNCHANGED <<requests, request>>
    /\ UNCHANGED <<appVars, planVars, multiVars, videoVars, operation,
                   requestFailed, responseText, consoleError, heldAtSubmit,
                   pollVars, localVars, editorVars, handle, upscalerImageFile,
                   originalImageUrl, upscalerReads, upscaledImageUrl,
                   upscalerVersion, upscalerSubmitted, imageResponse,
                   imageReturned,
                   taskVars, writerVars, generatorVars, videoCallVars>>

UpscalerFileToBase64Rejects(err) ==
    /\ UpscalerShown
    /\ pc = "upscaler:fileToBase64"
    /\ UpscalerCatch(err)
    /\ UNCHANGED <<appVars, planVars, multiVars, videoVars, operation,
                   requests, requestFailed, responseText, consoleError,
                   heldAtSubmit, pollVars, localVars, editorVars, wireVars,
                   upscalerImageFile, originalImageUrl, upscalerReads,
                   upscaledImageUrl, upscalerVersion, upscalerSubmitted,
                   imageResponse, imageReturned,
                   taskVars, writerVars, generatorVars, videoCallVars>>

\* generateContent resolves: the rest of editImage, then setUpscaledImageUrl
\* with the mime type handleSubmit computed (getMimeType in the later
\* version, imageFile.type in the earlier one) and the finally block.
UpscalerGenerateContentResolves(response) ==
    /\ UpscalerShown
    /\ pc = "upscaler:generateContent"
    /\ imageResponse' = response
    /\ imageReturned' = editImage(response).data
    /\ IF editImage(response).thrown # NoThrow
       THEN /\ UpscalerCatch(editImage(response).thrown)
            /\ UNCHANGED upscaledImageUrl
       ELSE /\ upscaledImageUrl' =
                   DataUrl(IF upscalerVersion = "part_002"
                           THEN getMimeType(upscalerSubmitted)
                           ELSE upscalerSubmitted.type,
                           editImage(response).data)
            /\ upscalerLoading' = FALSE
            /\ pc' = "idle"
            /\ outcome' = "returned"
            /\ UNCHANGED <<upscalerError, thrown>>
    /\ UNCHANGED <<appVars, planVars, multiVars, videoVars, operation,
                   requests, requestFailed, responseText, consoleError,
                   heldAtSubmit, pollVars, localVars, editorVars, wireVars,
                   upscalerImageFile, originalImageUrl, upscalerReads,
                   upscalerVersion, upscalerSubmitted,
                   taskVars, writerVars, generatorVars, videoCallVars>>

UpscalerGenerateContentRejects(err) ==
    /\ UpscalerShown
    /\ pc = "upscaler:generateContent"
    /\ requestFailed' = TRUE
    /\ UpscalerCatch(err)
    /\ UNCHANGED <<appVars, planVars, multiVars, videoVars, operation,
                   requests, responseText, consoleError, heldAtSubmit,
                   pollVars, localVars, editorVars, wireVars,
                   upscalerImageFile,
                   originalImageUrl, upscalerReads, upscaledImageUrl,
                   upscalerVersion, upscalerSubmitted, imageResponse,
                   imageReturned,
                   taskVars, writerVars, generatorVars, videoCallVars>>

\* ------------------------------------------------------------- ImageEditor

EditorShown == activeTab = "image"
EditorHeld == editedImageUrl # NoUrl

\* applyFilterAndGetUrl resolves with canvas.toDataURL('image/png') of the
\* image drawn through the filter.
FilteredUrl(url, filter) ==
    <<"data:", "image/png", ";base64,", filter, url[2], url[4]>>
FilterJob(url, filter) == [url |-> url, filter |-> filter]

\* The effect on [editedImageUrl, selectedFilter], run after a render in
\* which one of them changed.
EditorEffect(url, filter, jobs) ==
    IF url = NoUrl
    THEN UNCHANGED <<downloadableUrl, filterJobs>>
    ELSE /\ downloadableUrl' = url
         /\ filterJobs' = IF filter # "none"
                          THEN jobs \cup {FilterJob(url, filter)}
                          ELSE jobs

EditorSetPrompt(t) ==
    /\ EditorShown
    /\ editorPrompt' = t
    /\ UNCHANGED <<appVars, planVars, multiVars, videoVars, callVars,
                   recordVars, pollVars, localVars, upscalerVars, wireVars,
                   editorImageFile, editorOriginalUrl, editorReads,
                   editedImageUrl, downloadableUrl, selectedFilter,
                   editorLoading, editorError, editorSubmitted, filterJobs,
                   taskVars, writerVars, generatorVars, videoCallVars>>

\* A variant of handleFileChange: the selected filter is kept.
EditorHandleFileChangeKeepsFilter(file) ==
    /\ EditorShown
    /\ editorImageFile' = file
    /\ editedImageUrl' = NoUrl
    /\ editorError' = NoError
    /\ editorReads' = editorReads \cup {file}
    /\ UNCHANGED <<appVars, planVars, multiVars, videoVars, callVars,
                   recordVars, pollVars, localVars, upscalerVars, wireVars,
                   editorOriginalUrl, downloadableUrl, selectedFilter,
                   editorPrompt, editorLoading, editorSubmitted, filterJobs,
                   taskVars, writerVars, generatorVars, videoCallVars>>

\* handleFileChange up to its await of fileToDataUrl.
EditorHandleFileChange(file) ==
    /\ EditorShown
    /\ editorImageFile' = file
    /\ editedImageUrl' = NoUrl
    /\ selectedFilter' = "none"
    /\ editorError' = NoError
    /\ editorReads' = editorReads \cup {file}
    /\ UNCHANGED <<appVars, planVars, multiVars, videoVars, callVars,
                   recordVars, pollVars, localVars, upscalerVars, wireVars,
                   editorOriginalUrl, downloadableUrl, editorPrompt,
                   editorLoading, editorSubmitted, filterJobs,
                   taskVars, writerVars, generatorVars, videoCallVars>>

EditorFileToDataUrlResolves(file) ==
    /\ EditorShown
    /\ file \in editorReads
    /\ editorReads' = editorReads \ {file}
    /\ editorOriginalUrl' = file.name
    /\ UNCHANGED <<appVars, planVars, multiVars, videoVars, callVars,
                   recordVars, pollVars, localVars, upscalerVars, wireVars,
                   editorImageFile, editedImageUrl, downloadableUrl,
                   selectedFilter, editorPrompt, editorLoading, editorError,
                   editorSubmitted, filterJobs,
                   taskVars, writerVars, generatorVars, videoCallVars>>

EditorFileToDataUrlRejects(file) ==
    /\ EditorShown
    /\ file \in editorReads
    /\ editorReads' = editorReads \ {file}
    /\ editorError' = MsgPreviewFailed
    /\ UNCHANGED <<appVars, planVars, multiVars, videoVars, callVars,
                   recordVars, pollVars, localVars, upscalerVars, wireVars,
                   editorImageFile, editorOriginalUrl, editedImageUrl,
                   downloadableUrl, selectedFilter, editorPrompt,
                   editorLoading, editorSubmitted, filterJobs,
                   taskVars, writerVars, generatorVars, videoCallVars>>

\* The validation of handleSubmit: the message to show, or NoError when the
\* submission goes on.
EditorValidationNonEmptyOnly(file, text) ==
    IF file = NoFile \/ trim(text) = <<>> THEN MsgEditValidation
    ELSE NoError
EditorValidation(file, text) ==
    IF file = NoFile \/ trim(text) = <<>> THEN MsgEditValidation
    ELSE IF file.size > MAX_FILE_SIZE_BYTES THEN MsgFileTooLarge
    ELSE IF getMimeType(file) \notin supportedMimeTypes THEN MsgUnsupportedType
    ELSE NoError

\* handleSubmit up to its await of fileToBase64.  The submit button is
\* disabled while loading and while no image is selected.
EditorHandleSubmit ==
    /\ EditorShown
    /\ ~editorLoading /\ editorImageFile # NoFile
    /\ IF EditorValidation(editorImageFile, editorPrompt) # NoError
       THEN /\ editorError' = EditorValidation(editorImageFile, editorPrompt)
            /\ NewRecord(EditorHeld, "rejected", NoThrow, 0)
            /\ UNCHANGED <<editorLoading, editedImageUrl, selectedFilter,
                           editorSubmitted, pc>>
       ELSE /\ editorLoading' = TRUE
            /\ editorError' = NoError
            /\ editedImageUrl' = NoUrl
            /\ selectedFilter' = "none"
            /\ editorSubmitted' = editorImageFile
            /\ pc' = "editor:fileToBase64"
            /\ NewRecord(EditorHeld, "pending", NoThrow, 0)
    /\ Wire(<<>>, NoRequest)
    /\ UNCHANGED <<appVars, planVars, multiVars, videoVars, operation,
                   localVars, upscalerVars, editorImageFile,
                   editorOriginalUrl, editorReads, downloadableUrl,
                   editorPrompt, filterJobs,
                   taskVars, writerVars, generatorVars, videoCallVars>>

\* The catch and finally blocks of ImageEditor.handleSubmit.
EditorCatch(err) ==
    /\ editorError' = IF err.isError THEN err.message ELSE MsgEditFailed
    /\ editorLoading' = FALSE
    /\ pc' = "idle"
    /\ thrown' = err
    /\ outcome' = "thrown"

\* fileToBase64 resolves and editImage starts: getApiKey(), then the
\* generateContent request.
EditorFileToBase64Resolves ==
    /\ EditorShown
    /\ pc = "editor:fileToBase64"
    /\ keyReads' = <<apiKey>>
    /\ IF getApiKey
       THEN /\ pc' = "editor:generateContent"
            /\ requests' = requests + 1
            /\ request' = editImageRequest
            /\ UNCHANGED <<editorError, editorLoading, thrown, outcome>>
       ELSE /\ EditorCatch(Err(MsgApiKeyMissing))
            /\ UNCHANGED <<requests, request>>
    /\ UNCHANGED <<appVars, planVars, multiVars, videoVars, operation,
                   requestFailed, responseText, consoleError, heldAtSubmit,
                   pollVars, localVars, upscalerVars, handle,
                   editorImageFile, editorOriginalUrl, editorReads,
                   editedImageUrl, downloadableUrl, selectedFilter,
                   editorPrompt, editorSubmitted, filterJobs,
                   taskVars, writerVars, generatorVars, videoCallVars>>

EditorFileToBase64Rejects(err) ==
    /\ EditorShown
    /\ pc = "editor:fileToBase64"
    /\ EditorCatch(err)
    /\ UNCHANGED <<appVars, planVars, multiVars, videoVars, operation,
                   requests, requestFailed, responseText, consoleError,
                   heldAtSubmit, pollVars, localVars, upscalerVars, wireVars,
                   editorImageFile, editorOriginalUrl, editorReads,
                   editedImageUrl, downloadableUrl, selectedFilter,
                   editorPrompt, editorSubmitted, filterJobs,
                   taskVars, writerVars, generatorVars, videoCallVars>>

\* generateContent resolves: the rest of editImage, then setEditedImageUrl,
\* the finally block, and the effect of the render that follows.
EditorGenerateContentResolves(response) ==
    /\ EditorShown
    /\ pc = "editor:generateContent"
    /\ IF editImage(response).thrown # NoThrow
       THEN /\ EditorCatch(editImage(response).thrown)
            /\ UNCHANGED <<editedImageUrl, downloadableUrl, filterJobs>>
       ELSE /\ editedImageUrl' =
                   DataUrl(getMimeType(editorSubmitted),
                           editImage(response).data)
            /\ EditorEffect(DataUrl(getMimeType(editorSubmitted),
                                    editImage(response).data),
                            selectedFilter, filterJobs)
            /\ editorLoading' = FALSE
            /\ pc' = "idle"
            /\ outcome' = "returned"
            /\ UNCHANGED <<editorError, thrown>>
    /\ UNCHANGED <<appVars, planVars, multiVars, videoVars, operation,
                   requests, requestFailed, responseText, consoleError,
                   heldAtSubmit, pollVars, localVars, upscalerVars, wireVars,
                   editorImageFile, editorOriginalUrl, editorReads,
                   selectedFilter, editorPrompt, editorSubmitted,
                   taskVars, writerVars, generatorVars, videoCallVars>>

EditorGenerateContentRejects(err) ==
    /\ EditorShown
    /\ pc = "editor:generateContent"
    /\ requestFailed' = TRUE
    /\ EditorCatch(err)
    /\ UNCHANGED <<appVars, planVars, multiVars, videoVars, operation,
                   requests, responseText, consoleError, heldAtSubmit,
                   pollVars, localVars, upscalerVars, wireVars,
                   editorImageFile, editorOriginalUrl, editorReads,
                   editedImageUrl, downloadableUrl, selectedFilter,
                   editorPrompt, editorSubmitted, filterJobs,
                   taskVars, writerVars, generatorVars, videoCallVars>>

\* Filter applications pending at the same time, at most.
MaxFilterJobs == 1

\* A filter button, shown with the edited image; then the effect.
setSelectedFilter(filter) ==
    /\ EditorShown
    /\ editedImageUrl # NoUrl
    /\ filter # selectedFilter
    /\ filter = "none" \/
           Cardinality(filterJobs \cup {FilterJob(editedImageUrl, filter)})
               <= MaxFilterJobs
    /\ selectedFilter' = filter
    /\ EditorEffect(editedImageUrl, filter, filterJobs)
    /\ UNCHANGED <<appVars, planVars, multiVars, videoVars, callVars,
                   recordVars, pollVars, localVars, upscalerVars, wireVars,
                   editorImageFile, editorOriginalUrl, editorReads,
                   editedImageUrl, editorPrompt, editorLoading, editorError,
                   editorSubmitted,
                   taskVars, writerVars, generatorVars, videoCallVars>>

\* applyFilterAndGetUrl(...).then(setDownloadableUrl)
ApplyFilterResolves(job) ==
    /\ EditorShown
    /\ job \in filterJobs
    /\ filterJobs' = filterJobs \ {job}
    /\ downloadableUrl' = FilteredUrl(job.url, job.filter)
    /\ UNCHANGED <<appVars, planVars, multiVars, videoVars, callVars,
                   recordVars, pollVars, localVars, upscalerVars, wireVars,
                   editorImageFile, editorOriginalUrl, editorReads,
                   editedImageUrl, selectedFilter, editorPrompt,
                   editorLoading, editorError, editorSubmitted,
                   taskVars, writerVars, generatorVars, videoCallVars>>

\* The catch of the effect: the error, and the unfiltered image the effect
\* closed over as fallback.
ApplyFilterRejects(job) ==
    /\ EditorShown
    /\ job \in filterJobs
    /\ filterJobs' = filterJobs \ {job}
    /\ editorError' = MsgFilterFailed
    /\ downloadableUrl' = job.url
    /\ UNCHANGED <<appVars, planVars, multiVars, videoVars, callVars,
                   recordVars, pollVars, localVars, upscalerVars, wireVars,
                   editorImageFile, editorOriginalUrl, editorReads,
                   editedImageUrl, selectedFilter, editorPrompt,
                   editorLoading, editorSubmitted,
                   taskVars, writerVars, generatorVars, videoCallVars>>

\* -------------------------------------------------------------- PostWriter

setTopic(t) ==
    /\ activeTab = "writer"
    /\ topic' = t
    /\ UNCHANGED <<appVars, planVars, multiVars, videoVars, callVars,
                   recordVars, pollVars, localVars, upscalerVars, editorVars,
                   wireVars, taskVars, generatedPost, writerLoading,
                   writerError, generatorVars, videoCallVars>>

\* The generated post is shown when it is a non-empty string.
WriterHeld == generatedPost.present /\ generatedPost.text # <<>>

\* PostWriter.handleSubmit up to its await; the submit button is disabled
\* while loading.  generatePostContent starts with getApiKey().
WriterHandleSubmit ==
    /\ activeTab = "writer"
    /\ ~writerLoading
    /\ IF trim(topic) = <<>>
       THEN /\ writerError' = MsgTopicValidation
            /\ NewRecord(WriterHeld, "rejected", NoThrow, 0)
            /\ Wire(<<>>, NoRequest)
            /\ UNCHANGED <<generatedPost, writerLoading, pc>>
       ELSE /\ generatedPost' = Text(<<>>)
            /\ IF getApiKey
               THEN /\ writerLoading' = TRUE
                    /\ writerError' = NoError
                    /\ pc' = "generateContent"
                    /\ NewRecord(WriterHeld, "pending", NoThrow, 1)
                    /\ Wire(<<apiKey>>, generatePostContentRequest)
               ELSE /\ writerLoading' = FALSE
                    /\ writerError' = MsgApiKeyMissing
                    /\ pc' = "idle"
                    /\ NewRecord(WriterHeld, "thrown", Err(MsgApiKeyMissing), 0)
                    /\ Wire(<<apiKey>>, NoRequest)
    /\ UNCHANGED <<appVars, planVars, multiVars, videoVars, operation,
                   localVars, upscalerVars, editorVars, taskVars, topic,
                   generatorVars, videoCallVars>>

\* generateContent resolves: generatePostContent returns response.text, which
\* is undefined for a response without text, and handleSubmit stores it.
WriterGenerateContentResolves(text) ==
    /\ activeTab = "writer"
    /\ pc = "generateContent"
    /\ pc' = "idle"
    /\ responseText' = text
    /\ generatedPost' = text
    /\ writerLoading' = FALSE
    /\ outcome' = "returned"
    /\ UNCHANGED <<appVars, planVars, multiVars, videoVars, operation, thrown,
                   requests, requestFailed, consoleError, heldAtSubmit,
                   pollVars, localVars, upscalerVars, editorVars, wireVars,
                   taskVars, topic, writerError, generatorVars, videoCallVars>>

\* A variant of the rejection: the finally block is left out.
WriterGenerateContentRejectsNoFinally(err) ==
    /\ activeTab = "writer"
    /\ pc = "generateContent"
    /\ pc' = "idle"
    /\ requestFailed' = TRUE
    /\ thrown' = err
    /\ outcome' = "thrown"
    /\ writerError' = IF err.isError THEN err.message ELSE MsgPostUnknown
    /\ UNCHANGED <<appVars, planVars, multiVars, videoVars, operation,
                   requests, responseText, consoleError, heldAtSubmit,
                   pollVars, localVars, upscalerVars, editorVars, wireVars,
                   taskVars, topic, generatedPost, writerLoading,
                   generatorVars, videoCallVars>>

WriterGenerateContentRejects(err) ==
    /\ activeTab = "writer"
    /\ pc = "generateContent"
    /\ pc' = "idle"
    /\ requestFailed' = TRUE
    /\ thrown' = err
    /\ outcome' = "thrown"
    /\ writerError' = IF err.isError THEN err.message ELSE MsgPostUnknown
    /\ writerLoading' = FALSE
    /\ UNCHANGED <<appVars, planVars, multiVars, videoVars, operation,
                   requests, responseText, consoleError, heldAtSubmit,
                   pollVars, localVars, upscalerVars, editorVars, wireVars,
                   taskVars, topic, generatedPost, generatorVars, videoCallVars>>

\* ---------------------------------------------------------- ImageGenerator

\* generateImage after its generateImages call resolved: the bytes of the
\* first image, or a throw.
generateImage(response) ==
    IF ~response.generatedImages
    THEN [thrown |-> Err(MsgTypeError), data |-> ""]
    ELSE IF response.imageBytes = ""
    THEN [thrown |-> Err(MsgNoImage), data |-> ""]
    ELSE [thrown |-> NoThrow, data |-> response.imageBytes]

setGeneratorPrompt(t) ==
    /\ activeTab = "generate"
    /\ generatorPrompt' = t
    /\ UNCHANGED <<appVars, planVars, multiVars, videoVars, callVars,
                   recordVars, pollVars, localVars, upscalerVars, editorVars,
                   wireVars, taskVars, writerVars, generatorAspectRatio,
                   generatedImageUrl, generatorLoading, generatorError,
                   videoCallVars>>

setGeneratorAspectRatio(ratio) ==
    /\ activeTab = "generate"
    /\ generatorAspectRatio' = ratio
    /\ UNCHANGED <<appVars, planVars, multiVars, videoVars, callVars,
                   recordVars, pollVars, localVars, upscalerVars, editorVars,
                   wireVars, taskVars, writerVars, generatorPrompt,
                   generatedImageUrl, generatorLoading, generatorError,
                   videoCallVars>>

GeneratorHeld == generatedImageUrl # NoUrl

\* ImageGenerator.handleSubmit up to its await; the submit button is
\* disabled while loading.  generateImage starts with getApiKey().
GeneratorHandleSubmit ==
    /\ activeTab = "generate"
    /\ ~generatorLoading
    /\ IF trim(generatorPrompt) = <<>>
       THEN /\ generatorError' = MsgImagePromptValidation
            /\ NewRecord(GeneratorHeld, "rejected", NoThrow, 0)
            /\ Wire(<<>>, NoRequest)
            /\ UNCHANGED <<generatedImageUrl, generatorLoading, pc,
                           sentAspectRatio>>
       ELSE /\ generatedImageUrl' = NoUrl
            /\ IF getApiKey
               THEN /\ generatorLoading' = TRUE
                    /\ generatorError' = NoError
                    /\ pc' = "generateImages"
                    /\ NewRecord(GeneratorHeld, "pending", NoThrow, 1)
                    /\ Wire(<<apiKey>>, generateImagesRequest)
                    /\ sentAspectRatio' = generatorAspectRatio
               ELSE /\ generatorLoading' = FALSE
                    /\ generatorError' = MsgApiKeyMissing
                    /\ pc' = "idle"
                    /\ NewRecord(GeneratorHeld, "thrown",
                                 Err(MsgApiKeyMissing), 0)
                    /\ Wire(<<apiKey>>, NoRequest)
                    /\ UNCHANGED sentAspectRatio
    /\ UNCHANGED <<appVars, planVars, multiVars, videoVars, operation,
                   localVars, upscalerVars, editorVars, taskVars, writerVars,
                   generatorPrompt, generatorAspectRatio, aspectRatio,
                   videoSubmitted>>

\* generateImages resolves: the rest of generateImage, then
\* setGeneratedImageUrl or the catch block, then the finally block.
GenerateImagesResolves(response) ==
    /\ activeTab = "generate"
    /\ pc = "generateImages"
    /\ pc' = "idle"
    /\ generatorLoading' = FALSE
    /\ thrown' = generateImage(response).thrown
    /\ IF generateImage(response).thrown # NoThrow
       THEN /\ outcome' = "thrown"
            /\ generatorError' = generateImage(response).thrown.message
            /\ UNCHANGED generatedImageUrl
       ELSE /\ outcome' = "returned"
            /\ generatedImageUrl' =
                   DataUrl("image/jpeg", generateImage(response).data)
            /\ UNCHANGED generatorError
    /\ UNCHANGED <<appVars, planVars, multiVars, videoVars, operation,
                   requests, requestFailed, responseText, consoleError,
                   heldAtSubmit, pollVars, localVars, upscalerVars,
                   editorVars, wireVars, taskVars, writerVars,
                   generatorPrompt, generatorAspectRatio, videoCallVars>>

GenerateImagesRejects(err) ==
    /\ activeTab = "generate"
    /\ pc = "generateImages"
    /\ pc' = "idle"
    /\ requestFailed' = TRUE
    /\ thrown' = err
    /\ outcome' = "thrown"
    /\ generatorError' = IF err.isError THEN err.message ELSE MsgImageFailed
    /\ generatorLoading' = FALSE
    /\ UNCHANGED <<appVars, planVars, multiVars, videoVars, operation,
                   requests, responseText, consoleError, heldAtSubmit,
                   pollVars, localVars, upscalerVars, editorVars, wireVars,
                   taskVars, writerVars, generatorPrompt,
                   generatorAspectRatio, generatedImageUrl, videoCallVars>>

\* --------------------------------------------------------------------- App

\* Nothing of the mounted surface is in flight.
Quiescent == pc = "idle" /\ keyDialog = "idle" /\ pendingReads = {}

\* setActiveTab: the surface of the old tab is unmounted and that of the new
\* tab is mounted with its initial state.
setActiveTab(tab) ==
    /\ tab # activeTab
    /\ Quiescent
    /\ activeTab' = tab
    /\ businessInfo' = <<>> /\ competitorsInfo' = <<>>
    /\ plan' = Null /\ grounding' = NullGrounding
    /\ planLoading' = FALSE /\ planError' = NoError
    /\ postContent' = <<>> /\ selectedPlatforms' = <<>>
    /\ recommendations' = Null
    /\ multiLoading' = FALSE /\ multiError' = NoError
    /\ apiKeySelected' = FALSE /\ checkingApiKey' = TRUE
    /\ keyDialog' = IF tab = "video" THEN "mount" ELSE "idle"
    /\ imageFile' = "null" /\ previewUrl' = "null" /\ pendingReads' = {}
    /\ generatedVideoUrl' = "null" /\ prompt' = <<>>
    /\ videoLoading' = FALSE /\ videoError' = NoError
    /\ NewRecord(FALSE, "none", NoThrow, 0)
    /\ Wire(<<>>, NoRequest)
    /\ aspectRatio' = "16:9" /\ sentAspectRatio' = "none"
    /\ videoSubmitted' = [imageFile |-> "null", aspectRatio |-> "16:9"]
    /\ UNCHANGED <<apiKey, aistudio, callVars,
                   localVars, upscalerVars, editorVars,
                   taskVars, writerVars, generatorVars>>

\* The post ideas a plan may hold, and the ids Date.now() and Math.random()
\* may give a new task.
PostIdeas ==
    [platform : {"Instagram", "X"}, prompt : {"p1", "p2"},
     visualIdea : {"v1", "v2"}]
TaskIds == {"task-1", "task-2"}

isAlreadyAdded(prevTasks, postIdea) ==
    \E i \in 1..Len(prevTasks) :
        /\ prevTasks[i].postIdea.prompt = postIdea.prompt
        /\ prevTasks[i].postIdea.platform = postIdea.platform

\* A variant of the updater of addTask: a task counts as added only when
\* the whole post idea is the same.
addTaskUpdaterWholeIdea(prevTasks, postIdea, id) ==
    IF \E i \in 1..Len(prevTasks) : prevTasks[i].postIdea = postIdea
    THEN prevTasks
    ELSE Append(prevTasks,
                [id |-> id, postIdea |-> postIdea, completed |-> FALSE])

\* The updater addTask passes to setTasks.
addTaskUpdater(prevTasks, postIdea, id) ==
    IF isAlreadyAdded(prevTasks, postIdea)
    THEN prevTasks
    ELSE Append(prevTasks,
                [id |-> id, postIdea |-> postIdea, completed |-> FALSE])

addTask(postIdea, id) ==
    /\ tasks' = addTaskUpdater(tasks, postIdea, id)
    /\ UNCHANGED <<appVars, planVars, multiVars, videoVars, callVars,
                   recordVars, pollVars, localVars, upscalerVars, editorVars,
                   wireVars, writerVars, generatorVars, videoCallVars>>

\* A variant of the updater of toggleTask: a completed task stays completed.
toggleTaskUpdaterCompletesOnly(prevTasks, taskId) ==
    [i \in 1..Len(prevTasks) |->
        IF prevTasks[i].id = taskId
        THEN [prevTasks[i] EXCEPT !.completed = TRUE]
        ELSE prevTasks[i]]

\* The updater toggleTask passes to setTasks.
toggleTaskUpdater(prevTasks, taskId) ==
    [i \in 1..Len(prevTasks) |->
        IF prevTasks[i].id = taskId
        THEN [prevTasks[i] EXCEPT !.completed = ~prevTasks[i].completed]
        ELSE prevTasks[i]]

toggleTask(taskId) ==
    /\ tasks' = toggleTaskUpdater(tasks, taskId)
    /\ UNCHANGED <<appVars, planVars, multiVars, videoVars, callVars,
                   recordVars, pollVars, localVars, upscalerVars, editorVars,
                   wireVars, writerVars, generatorVars, videoCallVars>>

NextPlan ==
    \/ \E t \in InputTexts : setBusinessInfo(t)
    \/ \E t \in InputTexts : setCompetitorsInfo(t)
    \/ PlanHandleSubmit
    \/ \E text \in PlanResponseTexts, chunks \in GroundingChunkValues :
           PlanGenerateContentResolves(text, chunks)
    \/ \E err \in BackendFailures : PlanGenerateContentRejects(err)

NextMulti ==
    \/ \E t \in InputTexts : setPostContent(t)
    \/ \E i \in 1..Len(availablePlatforms) :
           handlePlatformChange(availablePlatforms[i])
    \/ handleGetRecommendations
    \/ \E text \in RecommendationsResponseTexts : MultiGenerateContentResolves(text)
    \/ \E err \in BackendFailures : MultiGenerateContentRejects(err)

NextVideo ==
    \/ checkKey
    \/ \E hasKey \in BOOLEAN : HasSelectedApiKeyResolves(hasKey)
    \/ HasSelectedApiKeyRejects
    \/ handleSelectKey
    \/ \E key \in BOOLEAN : OpenSelectKeyResolves(key)
    \/ OpenSelectKeyRejects
    \/ \E t \in InputTexts : setPrompt(t)
    \/ \E file \in Files : handleFileChange(file)
    \/ \E file \in Files : FileToDataUrlResolves(file)
    \/ \E file \in Files : FileToDataUrlRejects(file)
    \/ VideoHandleSubmit
    \/ FileToBase64Resolves
    \/ \E err \in BackendFailures : FileToBase64Rejects(err)
    \/ \E op \in Operations : GenerateVideosResolves(op)
    \/ \E err \in BackendFailures : GenerateVideosRejects(err)
    \/ TimerFires
    \/ \E op \in Operations : GetVideosOperationResolves(op)
    \/ \E err \in BackendFailures : GetVideosOperationRejects(err)
    \/ \E ok \in BOOLEAN : FetchResolves(ok)
    \/ \E err \in BackendFailures : FetchRejects(err)
    \/ BlobResolves
    \/ \E err \in BackendFailures : BlobRejects(err)

\* Only the mounted surface takes steps.
Next ==
    \/ \E tab \in Tabs : setActiveTab(tab)
    \/ activeTab = "plan" /\ NextPlan
    \/ activeTab = "multi-post" /\ NextMulti
    \/ activeTab = "video" /\ NextVideo

\* The whole application.
Spec == Init /\ [][Next]_vars

\* One surface each, from its mount on.
InitMulti ==
    /\ activeTab = "multi-post"
    /\ apiKey \in BOOLEAN
    /\ aistudio \in BOOLEAN
    /\ PlanInit /\ MultiInit /\ VideoInit /\ RecordInit /\ OthersInit
    /\ pc = "idle" /\ operation = NoOperation

InitVideo ==
    /\ activeTab = "video"
    /\ apiKey \in BOOLEAN
    /\ aistudio \in BOOLEAN
    /\ PlanInit /\ MultiInit /\ RecordInit /\ OthersInit
    /\ apiKeySelected = FALSE /\ checkingApiKey = TRUE /\ keyDialog = "mount"
    /\ imageFile = "null" /\ previewUrl = "null" /\ pendingReads = {}
    /\ generatedVideoUrl = "null" /\ prompt = <<>>
    /\ videoLoading = FALSE /\ videoError = NoError
    /\ pc = "idle" /\ operation = NoOperation

\* generateVideo under every aspect ratio of its parameter's type: the form
\* offers two of them, another caller may pass the third.
NextGenerateVideo ==
    \/ NextVideo
    \/ \E ratio \in VideoAspectRatios : setAspectRatio(ratio)
InitGenerateVideo ==
    /\ activeTab = "video"
    /\ apiKey = TRUE /\ aistudio = TRUE
    /\ PlanInit /\ MultiInit /\ RecordInit
    /\ LocalInit /\ geolocation = TRUE /\ geoRequest = "idle"
    /\ UpscalerInit /\ EditorInit /\ WireInitWith(AspectRatio)
    /\ apiKeySelected = FALSE /\ checkingApiKey = TRUE /\ keyDialog = "mount"
    /\ imageFile = "null" /\ previewUrl = "null" /\ pendingReads = {}
    /\ generatedVideoUrl = "null" /\ prompt = <<>>
    /\ videoLoading = FALSE /\ videoError = NoError
    /\ pc = "idle" /\ operation = NoOperation
SpecGenerateVideo == InitGenerateVideo /\ [][NextGenerateVideo]_vars

SpecPlan == Init /\ [][NextPlan]_vars

\* App's task list under its two callbacks.
NextTasks ==
    \/ \E postIdea \in PostIdeas, id \in TaskIds : addTask(postIdea, id)
    \/ \E taskId \in TaskIds : toggleTask(taskId)
InitTasks == Init /\ apiKey /\ aistudio
SpecTasks == InitTasks /\ [][NextTasks]_vars
SpecMulti == InitMulti /\ [][NextMulti]_vars
SpecVideo == InitVideo /\ [][NextVideo]_vars

\* The mount effect runs once the component is mounted, and the host settles
\* the promise of hasSelectedApiKey.
HasSelectedApiKeySettles ==
    \/ \E hasKey \in BOOLEAN : HasSelectedApiKeyResolves(hasKey)
    \/ HasSelectedApiKeyRejects
FairSpecVideo ==
    SpecVideo /\ WF_vars(checkKey) /\ WF_vars(HasSelectedApiKeySettles)

NextLocal ==
    \/ fetchLocation
    \/ \E position \in Positions : PositionSuccess(position)
    \/ \E error \in PositionErrors : PositionError(error)
    \/ \E t \in InputTexts : setQuery(t)
    \/ LocalHandleSubmit
    \/ \E text \in LocalResponseTexts, chunks \in LocalGroundingChunkValues :
           LocalGenerateContentResolves(text, chunks)
    \/ \E err \in BackendFailures : LocalGenerateContentRejects(err)

InitLocal ==
    /\ activeTab = "local"
    /\ apiKey \in BOOLEAN
    /\ aistudio = TRUE
    /\ geolocation \in BOOLEAN
    /\ geoRequest = "mount"
    /\ PlanInit /\ MultiInit /\ VideoInit /\ RecordInit
    /\ LocalInit /\ UpscalerInit /\ EditorInit /\ WireInit
    /\ pc = "idle" /\ operation = NoOperation

SpecLocal == InitLocal /\ [][NextLocal]_vars

NextUpscaler ==
    \/ \E file \in ImageFiles : UpscalerHandleFileChange(file)
    \/ \E file \in ImageFiles : UpscalerFileToDataUrlResolves(file)
    \/ \E file \in ImageFiles : UpscalerFileToDataUrlRejects(file)
    \/ UpscalerHandleSubmit
    \/ UpscalerFileToBase64Resolves
    \/ \E err \in BackendFailures : UpscalerFileToBase64Rejects(err)
    \/ \E response \in ImageResponses :
           UpscalerGenerateContentResolves(response)
    \/ \E err \in BackendFailures : UpscalerGenerateContentRejects(err)

InitUpscaler ==
    /\ activeTab = "upscale"
    /\ apiKey \in BOOLEAN
    /\ aistudio = TRUE
    /\ PlanInit /\ MultiInit /\ VideoInit /\ RecordInit
    /\ LocalInit /\ geolocation = TRUE /\ geoRequest = "idle"
    /\ UpscalerState /\ upscalerVersion \in UpscalerVersions
    /\ EditorInit /\ WireInit
    /\ pc = "idle" /\ operation = NoOperation

SpecUpscaler == InitUpscaler /\ [][NextUpscaler]_vars

\* ImageEditor: choosing a file, typing the prompt and submitting.
NextEditorSubmission ==
    \/ \E t \in InputTexts : EditorSetPrompt(t)
    \/ \E file \in ImageFiles : EditorHandleFileChange(file)
    \/ \E file \in ImageFiles : EditorFileToDataUrlResolves(file)
    \/ \E file \in ImageFiles : EditorFileToDataUrlRejects(file)
    \/ EditorHandleSubmit
    \/ EditorFileToBase64Resolves
    \/ \E err \in BackendFailures : EditorFileToBase64Rejects(err)
    \/ \E response \in ImageResponses :
           EditorGenerateContentResolves(response)
    \/ \E err \in BackendFailures : EditorGenerateContentRejects(err)

\* ImageEditor: the filters of the edited image.
AllFilterJobs ==
    {FilterJob(DataUrl(getMimeType(file), data), filter) :
        file \in ImageFiles, data \in {"i1", "i2"},
        filter \in FilterChoices}
NextEditorFilters ==
    \/ \E filter \in FilterChoices : setSelectedFilter(filter)
    \/ \E job \in AllFilterJobs : ApplyFilterResolves(job)
    \/ \E job \in AllFilterJobs : ApplyFilterRejects(job)

NextEditor == NextEditorSubmission \/ NextEditorFilters

InitEditor ==
    /\ activeTab = "image"
    /\ apiKey = TRUE
    /\ aistudio = TRUE
    /\ PlanInit /\ MultiInit /\ VideoInit /\ RecordInit
    /\ LocalInit /\ geolocation = TRUE /\ geoRequest = "idle"
    /\ UpscalerInit /\ EditorInit /\ WireInit
    /\ pc = "idle" /\ operation = NoOperation

SpecEditor == InitEditor /\ [][NextEditor]_vars

\* The host environment replaces or removes process.env.API_KEY.
EnvApiKeyChanges ==
    /\ apiKey' = ~apiKey
    /\ UNCHANGED <<activeTab, aistudio, planVars, multiVars, videoVars,
                   callVars, recordVars, pollVars, localVars, upscalerVars,
                   editorVars,
                   
                   wireVars,
                   taskVars, writerVars, generatorVars, videoCallVars>>

NextWriter ==
    \/ \E t \in InputTexts : setTopic(t)
    \/ WriterHandleSubmit
    \/ \E text \in {NoText} \cup {Text(t) : t \in PostResponseTexts} :
           WriterGenerateContentResolves(text)
    \/ \E err \in BackendFailures : WriterGenerateContentRejects(err)

NextGenerator ==
    \/ \E t \in InputTexts : setGeneratorPrompt(t)
    \/ \E ratio \in AspectRatio : setGeneratorAspectRatio(ratio)
    \/ GeneratorHandleSubmit
    \/ \E response \in GeneratedImagesResponses :
           GenerateImagesResolves(response)
    \/ \E err \in BackendFailures : GenerateImagesRejects(err)

\* Every surface that calls the gateway, each from its mount on, in an
\* environment whose API key may change at any time.
GatewayTabs ==
    {"plan", "multi-post", "writer", "generate", "video", "local", "upscale",
     "image"}

InitGateway ==
    /\ activeTab \in GatewayTabs
    /\ apiKey \in BOOLEAN
    /\ aistudio \in (IF activeTab = "video" THEN BOOLEAN ELSE {TRUE})
    /\ geolocation \in (IF activeTab = "local" THEN BOOLEAN ELSE {TRUE})
    /\ geoRequest = (IF activeTab = "local" THEN "mount" ELSE "idle")
    /\ PlanInit /\ MultiInit /\ RecordInit
    /\ apiKeySelected = FALSE /\ checkingApiKey = TRUE
    /\ keyDialog = (IF activeTab = "video" THEN "mount" ELSE "idle")
    /\ imageFile = "null" /\ previewUrl = "null" /\ pendingReads = {}
    /\ generatedVideoUrl = "null" /\ prompt = <<>>
    /\ videoLoading = FALSE /\ videoError = NoError
    /\ LocalInit /\ UpscalerState
    /\ upscalerVersion \in
           (IF activeTab = "upscale" THEN UpscalerVersions ELSE {"part_002"})
    /\ EditorInit /\ WireInit
    /\ pc = "idle" /\ operation = NoOperation

NextGateway ==
    \/ activeTab = "plan" /\ NextPlan
    \/ activeTab = "multi-post" /\ NextMulti
    \/ activeTab = "video" /\ NextVideo
    \/ activeTab = "local" /\ NextLocal
    \/ activeTab = "upscale" /\ NextUpscaler
    \/ activeTab = "image" /\ NextEditorSubmission
    \/ activeTab = "writer" /\ NextWriter
    \/ activeTab = "generate" /\ NextGenerator
    \/ EnvApiKeyChanges

SpecGateway == InitGateway /\ [][NextGateway]_vars

\* ----------------------------------------------------------------- claims

Last(seq) == seq[Len(seq)]
FalseReports(seq) == Cardinality({i \in 1..Len(seq) : ~seq[i]})
\* The operation most recently received reports done.
DoneObserved == observed # <<>> /\ Last(observed)
\* No operation received so far reports done.
NeverDone == \A i \in 1..Len(observed) : ~observed[i]

\* msg = prefix \o "Requested entity was not found" \o suffix
HasInvalidCredentialText(msg) ==
    \E i \in 0..Len(msg), j \in 0..Len(msg) :
        i <= j /\ SubSeq(msg, i + 1, j) = InvalidCredentialNeedle

\* What the mounted surface holds and shows.
HoldsResult ==
    \/ plan # Null \/ recommendations # Null \/ generatedVideoUrl # "null"
    \/ LocalHeld \/ upscaledImageUrl # NoUrl \/ editedImageUrl # NoUrl
    \/ WriterHeld \/ GeneratorHeld
ShownError ==
    CASE activeTab = "plan" -> planError
      [] activeTab = "multi-post" -> multiError
      [] activeTab = "video" -> videoError
      [] activeTab = "local" -> localError
      [] activeTab = "upscale" -> upscalerError
      [] activeTab = "writer" -> writerError
      [] activeTab = "generate" -> generatorError
      [] OTHER -> editorError
Loading ==
    planLoading \/ multiLoading \/ videoLoading \/ localLoading
        \/ upscalerLoading \/ editorLoading \/ writerLoading
        \/ generatorLoading
\* The message of the thrown value, as a surface reads it.
ThrownMessage(err) == IF err.isError THEN err.message ELSE MsgUnknown

\* C1, as stated: when status checks have reported done=false N times and
\* then done=true, the poller has issued N+1 status checks.
C1_ChecksAsStated ==
    DoneObserved => checks = FalseReports(Tail(observed)) + 1

\* C1, amended: when the submission's response reports done=false and status
\* checks have reported done=false N times and then done=true, the poller has
\* issued exactly N+1 status checks, the done report being the last one
\* received; when the submission's response already reports done, it has issued
\* none; every status check was preceded by one wait; and a binary fetch or a
\* result exists only once a done report was received.
C1_PollCount ==
    /\ DoneObserved =>
           /\ checks = IF observed[1] THEN 0
                       ELSE FalseReports(Tail(observed)) + 1
           /\ Len(observed) = checks + 1
           /\ FalseReports(observed) = Len(observed) - 1
    /\ waits = IF pc = "setTimeout" THEN checks + 1 ELSE checks
    /\ (pc \in {"fetch", "blob"} \/ fetches > 0 \/ outcome = "returned")
           => DoneObserved

C1_Witness ==
    /\ observed = <<FALSE, FALSE, FALSE, TRUE>>
    /\ checks = 3 /\ waits = 3
    /\ outcome = "returned"

\* The gateway's result for the response text: the plan returned, or a failure.
PlanResult ==
    [ok |-> outcome = "returned",
     val |-> IF outcome = "returned" THEN plan ELSE Undefined]

FencedParsesAsPlanResult ==
    \A pre \in Pads, afterOpen \in Pads, beforeClose \in Pads, post \in Pads :
        ParsePlanText(Fenced(responseText.text, pre, afterOpen, beforeClose, post))
            = PlanResult

\* C2, as stated: for any response text T, the plan parsed from T wrapped in a
\* ```json fence is the plan parsed from T.
C2_FenceAsStated ==
    responseText.present => FencedParsesAsPlanResult

\* C2, amended: for any response text T that does not itself start with a
\* ```json fence, the plan parsed from T wrapped in a fence is the plan parsed
\* from T; and a fenced document with one competitor and one post idea yields
\* a plan with exactly one entry in each of the two sequences.
C2_FenceTransparent ==
    /\ (responseText.present /\ ~startsWith(trim(responseText.text), FenceOpen))
           => FencedParsesAsPlanResult
    /\ (\E pre \in Pads, mid \in Pads, post \in Pads :
            responseText = Text(Fenced(DocFull, pre, mid, mid, post)))
           => /\ outcome = "returned"
              /\ Len(GetMember(plan, KeyCompetitorAnalysis).items) = 1
              /\ Len(GetMember(plan, KeyPostIdeas).items) = 1

C2_Witness ==
    /\ responseText = Text(Fenced(DocFull, <<>>, <<"\n">>, <<"\n">>, <<"\n">>))
    /\ outcome = "returned"
    /\ GetMember(plan, KeyPostIdeas) = Arr(<<Scalar(Element)>>)

\* C3: when the video call fails, a message containing "Requested entity was
\* not found" makes the surface show the invalid-key message and set
\* apiKeySelected to false; any other message is shown as it is and
\* apiKeySelected is left unchanged.
C3_Classification ==
    [][(outcome = "pending" /\ outcome' = "thrown") =>
           IF thrown'.isError /\ HasInvalidCredentialText(thrown'.message)
           THEN videoError' = MsgInvalidKey /\ apiKeySelected' = FALSE
           ELSE /\ videoError' = ThrownMessage(thrown')
                /\ apiKeySelected' = apiKeySelected]_vars

C3_Witness ==
    /\ outcome = "thrown"
    /\ thrown = Err(<<"404", "NOT_FOUND:">> \o InvalidCredentialNeedle)
    /\ videoError = MsgInvalidKey
    /\ ~apiKeySelected

\* C4: when the binary fetch answers with a response that is not ok, the call
\* has failed with the download error and nothing else: no blob reference was
\* created, no video is held and the form is no longer loading.
C4_DownloadFailed ==
    fetchResponse = "not ok" =>
        /\ pc = "idle" /\ outcome = "thrown"
        /\ thrown = Err(MsgDownloadFailed)
        /\ videoError \in {MsgDownloadFailed, MsgPreviewFailed}
        /\ blobUrls = 0
        /\ generatedVideoUrl = "null"
        /\ ~videoLoading

C4_Witness ==
    /\ observed = <<FALSE, FALSE, TRUE>>
    /\ operation = [done |-> TRUE, uri |-> "uri"]
    /\ fetchResponse = "not ok"
    /\ videoError = MsgDownloadFailed
    /\ generatedVideoUrl = "null" /\ ~videoLoading

\* C5: when the operation received reports done and carries no result URI, the
\* call has failed with the generation error: no status check follows the done
\* report, no binary fetch was issued and no result exists.
C5_GenerationFailed ==
    (operation.done /\ operation.uri \in {Absent, ""}) =>
        /\ pc = "idle" /\ outcome = "thrown"
        /\ thrown = Err(MsgNoUri)
        /\ checks = Len(observed) - 1
        /\ requests = Len(observed)
        /\ fetches = 0 /\ blobUrls = 0
        /\ generatedVideoUrl = "null"

C5_Witness ==
    /\ operation = [done |-> TRUE, uri |-> Absent]
    /\ checks = 2
    /\ outcome = "thrown" /\ thrown = Err(MsgNoUri)

IsArray(v) == v.t = "arr"

\* C6: a plan that generateMarketingPlan returns has every required sequence.
C6_FullyPopulated ==
    (activeTab = "plan" /\ outcome = "returned") =>
        /\ IsArray(GetMember(plan, KeyCompetitorAnalysis))
        /\ IsArray(GetMember(plan, KeyContentPillars))
        /\ IsArray(GetMember(plan, KeyPostIdeas))

\* C7, as stated: after a failed call, a surface that held a result when the
\* submission was made still holds it.
C7_ResultKeptAsStated ==
    (outcome = "thrown" /\ heldAtSubmit) => HoldsResult

\* C7, amended: when a gateway call fails, the surface shows the error's
\* message (the invalid-key message for an invalid credential in the video
\* surface) and holds no result: the earlier result was cleared when the
\* submission passed validation.
C7_FailureClearsResult ==
    [][(outcome' = "thrown" /\ (outcome # "thrown" \/ pc # "idle")) =>
           /\ ~HoldsResult'
           /\ ShownError' # NoError
           /\ ShownError' =
                  IF activeTab = "video" /\ HasInvalidCredentialText(thrown'.message)
                  THEN MsgInvalidKey
                  ELSE ThrownMessage(thrown')]_vars

C7_Witness ==
    /\ activeTab = "plan"
    /\ outcome = "thrown" /\ heldAtSubmit /\ requestFailed
    /\ plan = Null
    /\ planError = <<"Quota", "exceeded">>

\* C8: when the text of a plan response, after fence stripping, does not parse
\* as JSON, the call has failed with the format error, the raw response text
\* was logged, no plan and no grounding metadata are held, and the one request
\* of the call was not followed by another.
C8_ResponseFormatError ==
    (activeTab = "plan" /\ responseText.present
        /\ ~JSONparse(StripFence(responseText.text)).ok) =>
        /\ pc = "idle" /\ outcome = "thrown"
        /\ thrown = Err(MsgPlanFormat)
        /\ planError = MsgPlanFormat
        /\ consoleError = responseText
        /\ plan = Null /\ grounding = NullGrounding
        /\ requests = 1

C8_Witness ==
    /\ responseText = Text(Fenced(<<"x">>, <<>>, <<"\n">>, <<"\n">>, <<"\n">>))
    /\ consoleError = responseText
    /\ outcome = "thrown"
    /\ plan = Null

\* C9: once a backend request of a call has failed, the call is over: nothing
\* is in flight, no further request is issued, and the surface shows an error
\* and is not loading.
C9_NoRetry ==
    [][requestFailed' =>
           /\ pc' = "idle" /\ outcome' = "thrown"
           /\ ~Loading'
           /\ ShownError' # NoError
           /\ (requestFailed => requests' = requests)]_vars

C9_Witness ==
    /\ activeTab = "video"
    /\ requestFailed
    /\ checks = 2 /\ Len(observed) = 2 /\ fetches = 0
    /\ pc = "idle" /\ ~videoLoading /\ videoError # NoError

\* C10: as long as no operation received reports done and no request fails,
\* the video call neither returns nor fails: it is waiting for the response to
\* the submission, for the timer or for the response to a status check, one
\* wait before each check, and the form is loading.
C10_PollsWhileNotDone ==
    (requests > 0 /\ NeverDone /\ ~requestFailed /\ activeTab = "video") =>
        /\ outcome = "pending"
        /\ pc \in {"generateVideos", "setTimeout", "getVideosOperation"}
        /\ waits = IF pc = "setTimeout" THEN checks + 1 ELSE checks
        /\ Len(observed) = IF pc = "setTimeout" THEN checks + 1 ELSE checks
        /\ videoLoading
        /\ generatedVideoUrl = "null"

C10_Witness ==
    /\ checks = MaxChecks
    /\ pc = "getVideosOperation"
    /\ Len(observed) = MaxChecks /\ NeverDone
    /\ videoLoading

\* C11: when process.env.API_KEY is not set as a gateway operation starts, the
\* operation fails with the configuration error and has sent no request; a
\* request has been sent only by a call that found the key; and generateVideo
\* reads the key a second time when it is about to fetch the video, fails with
\* the configuration error if it is gone, and fetches only if it is there.
C11_ConfigurationError ==
    /\ (keyReads # <<>> /\ ~keyReads[1]) =>
           /\ pc = "idle" /\ outcome = "thrown"
           /\ thrown = Err(MsgApiKeyMissing)
           /\ requests = 0 /\ request = NoRequest
           /\ ~HoldsResult /\ ~Loading
    /\ requests > 0 => (keyReads # <<>> /\ keyReads[1])
    /\ Len(keyReads) <= (IF activeTab = "video" THEN 2 ELSE 1)
    /\ (Len(keyReads) = 2 /\ ~keyReads[2]) =>
           /\ DoneObserved
           /\ pc = "idle" /\ outcome = "thrown"
           /\ thrown = Err(MsgApiKeyMissing)
           /\ fetches = 0 /\ blobUrls = 0
           /\ generatedVideoUrl = "null" /\ ~videoLoading
    /\ fetches > 0 => (Len(keyReads) = 2 /\ keyReads[2])

C11_Witness ==
    /\ activeTab = "video"
    /\ keyReads = <<TRUE, FALSE>>
    /\ checks = 1 /\ operation = [done |-> TRUE, uri |-> "uri"]
    /\ outcome = "thrown" /\ thrown = Err(MsgApiKeyMissing)
    /\ videoError = MsgApiKeyMissing
    /\ fetches = 0

\* The chunk list of the last getLocalInsights response and its normalized
\* form, once LocalInsights has stored it.
LocalReturned == activeTab = "local" /\ pc = "idle" /\ outcome = "returned"
Received == chunksReceived.list
WebBefore(i) == Cardinality({j \in 1..i : Received[j].web.present})
MapsBefore(i) == Cardinality({j \in 1..i : Received[j].maps.present})
OnlyWeb ==
    /\ Received # <<>>
    /\ \A i \in 1..Len(Received) :
           Received[i].web.present /\ ~Received[i].maps.present

\* C12: parseGroundingChunks returns null exactly when the chunk list is
\* absent or empty; for a non-empty list it returns a non-null structure, also
\* when no chunk of the list is a web or maps chunk (both sequences empty).
C12_NullExactlyWhenNoChunks ==
    LocalReturned =>
        /\ localGrounding.isNull <=>
               (~chunksReceived.defined \/ Len(Received) = 0)
        /\ (chunksReceived.defined /\ Len(Received) > 0) =>
               /\ localGrounding # NullGrounding
               /\ Len(localGrounding.web) = WebBefore(Len(Received))
               /\ Len(localGrounding.maps) = MapsBefore(Len(Received))

C12_Witness ==
    /\ LocalReturned
    /\ Received = <<NeitherChunk>>
    /\ localGrounding = [isNull |-> FALSE, web |-> <<>>, maps |-> <<>>]

\* C13: for a chunk with a missing title the normalized entry's title is
\* "Untitled" when the chunk is a web chunk and "Untitled Place" when it is a
\* maps chunk.
C13_DefaultTitles ==
    LocalReturned =>
        \A i \in 1..Len(Received) :
            /\ (Received[i].web.present /\ Received[i].web.title = Absent) =>
                   localGrounding.web[WebBefore(i)].title = "Untitled"
            /\ (Received[i].maps.present /\ Received[i].maps.title = Absent) =>
                   localGrounding.maps[MapsBefore(i)].title = "Untitled Place"

\* C14: for a non-empty chunk list of web chunks only, the maps sequence is
\* empty and the web sequence has one entry per chunk, in the input order.
C14_OnlyWebChunks ==
    (LocalReturned /\ OnlyWeb) =>
        /\ ~localGrounding.isNull
        /\ localGrounding.maps = <<>>
        /\ Len(localGrounding.web) = Len(Received)
        /\ \A i \in 1..Len(Received) :
               localGrounding.web[i] =
                   [title |-> NullishOr(Received[i].web.title, "Untitled"),
                    uri |-> NullishOr(Received[i].web.uri, "")]

C14_Witness ==
    /\ LocalReturned
    /\ Received = <<WebChunk, WebUntitled>>
    /\ localGrounding.maps = <<>>
    /\ localGrounding.web = <<[title |-> "T", uri |-> "u"],
                              [title |-> "Untitled", uri |-> ""]>>

\* C20 as stated: every chunk contributes to exactly one of the two output
\* sequences, so the lengths of web and maps add up to the number of chunks.
C20_PartitionAsStated ==
    (LocalReturned /\ Received # <<>>) =>
        Len(localGrounding.web) + Len(localGrounding.maps) = Len(Received)

\* C20: every chunk contributes its web part to the web sequence when it has
\* one and its maps part to the maps sequence when it has one, each sequence
\* in input order; a chunk with both parts is in both sequences and a chunk
\* with neither is in none, so the lengths add up to the number of chunks when
\* every chunk has exactly one of the two parts.
C20_Partition ==
    (LocalReturned /\ Received # <<>>) =>
        /\ Len(localGrounding.web) = WebBefore(Len(Received))
        /\ Len(localGrounding.maps) = MapsBefore(Len(Received))
        /\ \A i \in 1..Len(Received) :
               /\ Received[i].web.present =>
                      localGrounding.web[WebBefore(i)].uri =
                          NullishOr(Received[i].web.uri, "")
               /\ Received[i].maps.present =>
                      /\ localGrounding.maps[MapsBefore(i)].uri =
                             NullishOr(Received[i].maps.uri, "")
                      /\ localGrounding.maps[MapsBefore(i)].placeId =
                             Received[i].maps.placeId
        /\ (\A i \in 1..Len(Received) :
                Received[i].web.present # Received[i].maps.present) =>
               Len(localGrounding.web) + Len(localGrounding.maps)
                   = Len(Received)

C20_Witness ==
    /\ LocalReturned
    /\ Received = <<BothChunk>>
    /\ Len(localGrounding.web) = 1
    /\ Len(localGrounding.maps) = 1

\* The response to the upscaler's editImage call has come and editImage has
\* returned or thrown.
UpscalerAnswered ==
    UpscalerShown /\ pc = "idle" /\ requests = 1 /\ ~requestFailed
InlineParts == SelectSeq(imageResponse.parts, LAMBDA part : part.inlineData)

\* C15: editImage returns the data of the first part with inline data, and
\* throws 'No image was generated.' when the response has no part with inline
\* data.
C15_FirstInlineOrNoContent ==
    UpscalerAnswered =>
        IF InlineParts # <<>>
        THEN outcome = "returned" /\ imageReturned = InlineParts[1].data
        ELSE outcome = "thrown" /\ thrown = Err(MsgNoImage)

NoCallMade ==
    /\ outcome' = "rejected" /\ pc' = "idle"
    /\ requests' = 0 /\ keyReads' = <<>> /\ request' = NoRequest
Oversized(file) == file.size > MAX_FILE_SIZE_BYTES
Unsupported(file) == file.type \notin supportedMimeTypes

\* The submit handlers other than the upscaler's.
TextHandlersValidate ==
    /\ (PlanHandleSubmit
            /\ (trim(businessInfo) = <<>> \/ trim(competitorsInfo) = <<>>)) =>
           /\ planError' = MsgPlanValidation /\ ~planLoading'
           /\ UNCHANGED <<plan, grounding>> /\ NoCallMade
    /\ (handleGetRecommendations
            /\ (trim(postContent) = <<>> \/ Len(selectedPlatforms) = 0)) =>
           /\ multiError' = MsgRecommendationsValidation /\ ~multiLoading'
           /\ UNCHANGED recommendations /\ NoCallMade
    /\ (VideoHandleSubmit /\ (imageFile = "null" \/ trim(prompt) = <<>>)) =>
           /\ videoError' = MsgVideoValidation /\ ~videoLoading'
           /\ UNCHANGED generatedVideoUrl /\ NoCallMade
    /\ (LocalHandleSubmit /\ (trim(query) = <<>> \/ geo.data = "null")) =>
           /\ localError' \in {MsgQueryValidation, MsgNoLocation}
           /\ ~localLoading'
           /\ UNCHANGED <<insights, localGrounding>> /\ NoCallMade
    /\ (EditorHandleSubmit
            /\ (\/ editorImageFile = NoFile \/ trim(editorPrompt) = <<>>
                \/ Oversized(editorImageFile)
                \/ Unsupported(editorImageFile))) =>
           /\ editorError' \in
                  {MsgEditValidation, MsgFileTooLarge, MsgUnsupportedType}
           /\ ~editorLoading'
           /\ UNCHANGED editedImageUrl /\ NoCallMade

C18_CheckKey ==
    /\ [][/\ (checkKey /\ ~aistudio) =>
                 (apiKeySelected' /\ ~checkingApiKey' /\ keyDialog' = "idle")
          /\ \A hasKey \in BOOLEAN :
                 HasSelectedApiKeyResolves(hasKey) =>
                     (apiKeySelected' = hasKey /\ ~checkingApiKey')
          /\ HasSelectedApiKeyRejects =>
                 (apiKeySelected' /\ ~checkingApiKey')
          /\ checkingApiKey' => checkingApiKey]_vars
    /\ [](checkingApiKey <=> keyDialog \in {"mount", "hasSelectedApiKey"})
    /\ <>[](~checkingApiKey)

C18_Witness ==
    /\ activeTab = "video" /\ ~aistudio
    /\ keyDialog = "idle"
    /\ ~checkingApiKey /\ apiKeySelected
    /\ pc = "idle" /\ outcome = "none"

\* C19: generateVideo goes through submit, then (wait, status check) pairs,
\* then at most one fetch, then the blob URL: a wait precedes every status
\* check, no check follows a response with done = true, a fetch and a returned
\* result come only after a response with done = true, every status check
\* passes the operation of the response before it, and a submission answered
\* with done = true is followed by no wait and no status check.
C19_ProtocolOrder ==
    activeTab = "video" =>
        /\ \A i \in 1..(Len(observed) - 1) : ~observed[i]
        /\ waits = (IF pc = "setTimeout" THEN checks + 1 ELSE checks)
        /\ Len(observed) \in {checks, checks + 1}
        /\ pc \in {"setTimeout", "fetch", "blob"} =>
               Len(observed) = checks + 1
        /\ pc = "getVideosOperation" => Len(observed) = checks
        /\ (pc \in {"setTimeout", "getVideosOperation"}) => NeverDone
        /\ fetches <= 1 /\ blobUrls <= fetches
        /\ (fetches > 0 \/ pc \in {"fetch", "blob"} \/ outcome = "returned") =>
               DoneObserved
        /\ pc = "getVideosOperation" =>
               (handle = operation /\ ~handle.done)
        /\ (observed # <<>> /\ observed[1]) =>
               (checks = 0 /\ waits = 0 /\ handle = NoOperation)

C19_Witness ==
    /\ activeTab = "video"
    /\ pc = "idle" /\ outcome = "returned"
    /\ observed = <<FALSE, FALSE, TRUE>>
    /\ handle = [done |-> FALSE, uri |-> "uri"]
    /\ checks = 2 /\ waits = 2 /\ fetches = 1 /\ blobUrls = 1

SameIdea(a, b) == a.prompt = b.prompt /\ a.platform = b.platform
NoTwoTasksShareIdea ==
    \A i, j \in 1..Len(tasks) :
        i # j => ~SameIdea(tasks[i].postIdea, tasks[j].postIdea)

\* C21: no two tasks of the list share the (prompt, platform) pair; addTask
\* with a post idea whose prompt and platform are those of a task of the list
\* leaves the list as it is, and any other addTask appends one task that is
\* not completed and holds the post idea, the tasks before it unchanged.
C21_AddTask ==
    /\ []NoTwoTasksShareIdea
    /\ [][\A postIdea \in PostIdeas, id \in TaskIds :
            addTask(postIdea, id) =>
                IF \E i \in 1..Len(tasks) :
                       SameIdea(tasks[i].postIdea, postIdea)
                THEN tasks' = tasks
                ELSE /\ Len(tasks') = Len(tasks) + 1
                     /\ SubSeq(tasks', 1, Len(tasks)) = tasks
                     /\ Last(tasks').postIdea = postIdea
                     /\ Last(tasks').completed = FALSE]_vars

\* Two tasks whose post ideas differ in the visual idea only were offered,
\* and the list holds a completed task followed by a task added after it.
C21_Witness ==
    /\ Len(tasks) = 3
    /\ tasks[1].completed /\ ~tasks[3].completed
    /\ tasks[1].postIdea.prompt = tasks[2].postIdea.prompt
    /\ tasks[1].id = tasks[3].id

\* C22: toggleTask(id) flips the completed flag of the tasks whose id is id
\* and of no other task, and keeps the length, the order, the ids and the
\* post ideas of the list; with an id no task has the list stays as it is;
\* toggling the same id twice gives the list back; no step removes a task.
C22_ToggleTask ==
    /\ [][\A taskId \in TaskIds :
            toggleTask(taskId) =>
                /\ Len(tasks') = Len(tasks)
                /\ \A i \in 1..Len(tasks) :
                       /\ tasks'[i].id = tasks[i].id
                       /\ tasks'[i].postIdea = tasks[i].postIdea
                       /\ tasks'[i].completed =
                              (IF tasks[i].id = taskId
                               THEN ~tasks[i].completed
                               ELSE tasks[i].completed)
                /\ (\A i \in 1..Len(tasks) : tasks[i].id # taskId)
                       => tasks' = tasks]_vars
    /\ [](\A taskId \in TaskIds :
              toggleTaskUpdater(toggleTaskUpdater(tasks, taskId), taskId)
                  = tasks)
    /\ [][/\ Len(tasks') >= Len(tasks)
          /\ \A i \in 1..Len(tasks) :
                 /\ tasks'[i].id = tasks[i].id
                 /\ tasks'[i].postIdea = tasks[i].postIdea]_vars

\* The second of two tasks with different ids was toggled, the first not.
C22_Witness ==
    /\ Len(tasks) = 2
    /\ tasks[1].id # tasks[2].id
    /\ ~tasks[1].completed /\ tasks[2].completed

ErrorSet == ShownError # NoError
\* The surface holds a result that it displays.
ResultSet ==
    \/ plan # Null
    \/ recommendations.t = "arr" /\ recommendations.items # <<>>
    \/ generatedVideoUrl # "null"
    \/ (insights.present /\ insights.text # <<>>) \/ ~localGrounding.isNull
    \/ upscaledImageUrl # NoUrl \/ editedImageUrl # NoUrl
    \/ WriterHeld \/ GeneratorHeld
\* The call sites whose result is a text or a list, which may come empty.
MayComeEmpty == activeTab \in {"multi-post", "writer", "local"}
\* The gateway call of the submission settles in this step.
Settles == pc # "idle" /\ pc' = "idle"
\* The call sites whose form has no file input.
TextOnly ==
    activeTab \in {"plan", "multi-post", "writer", "generate", "local"}

C24_ResultOfSelectedFile ==
    /\ generatedVideoUrl # "null" => videoSubmitted.imageFile = imageFile
    /\ editedImageUrl # NoUrl => editorSubmitted = editorImageFile

\* C29: generateVideo never sends the aspect ratio 1:1: a requested 1:1 is
\* sent as 16:9, and 16:9 and 9:16 are sent as they are.
C29_AspectRatioSent ==
    /\ [](request.op = "generateVideo" => sentAspectRatio # "1:1")
    /\ [][(pc = "fileToBase64" /\ pc' = "generateVideos") =>
            sentAspectRatio' =
                (IF videoSubmitted.aspectRatio = "1:1"
                 THEN "16:9" ELSE videoSubmitted.aspectRatio)]_vars

\* A video was requested with 1:1 and the request carries 16:9.
C29_Witness ==
    /\ pc = "generateVideos" /\ request.op = "generateVideo"
    /\ videoSubmitted.aspectRatio = "1:1" /\ sentAspectRatio = "16:9"

FiltersSettled == filterJobs = {}

\* C25: in the image editor, once no filter application is pending, the
\* downloadable URL is the edited image with the selected filter applied, or
\* the edited image itself when the filter is none or the filtering failed.
C25_DownloadableOfSelection ==
    (FiltersSettled /\ editedImageUrl # NoUrl) =>
        \/ downloadableUrl = editedImageUrl
               /\ (selectedFilter = "none" \/ editorError = MsgFilterFailed)
        \/ selectedFilter # "none"
               /\ downloadableUrl = FilteredUrl(editedImageUrl, selectedFilter)

\* C27: in the image editor, a filter other than none is selected only while
\* an edited image exists.
C27_FilterOnlyWithEditedImage ==
    editedImageUrl = NoUrl => selectedFilter = "none"

\* The edited image that had a filter was discarded by a file change, with a
\* filter application still pending.
C27_Witness ==
    /\ editedImageUrl = NoUrl /\ selectedFilter = "none"
    /\ editorImageFile # editorSubmitted
    /\ \E job \in filterJobs : job.filter = "sepia"

\* The submission fails in this step with an invalid-credential message.
InvalidCredentialFailure ==
    /\ outcome = "pending" /\ outcome' = "thrown"
    /\ thrown'.isError /\ HasInvalidCredentialText(thrown'.message)

C28_Geolocation ==
    /\ geo = [loading |-> TRUE, error |-> "null", data |-> "null"]
    /\ [](~(geo.data # "null" /\ geo.error # "null"))
    /\ [](geo.loading <=> (geo.data = "null" /\ geo.error = "null"))
    /\ [](geoRequest = "idle" => ~geo.loading)
    /\ [][geoRequest' # geoRequest =>
              (geoRequest' = "idle") = ~geo.loading']_vars
    /\ []((pc # "idle" \/ requests > 0 \/ request # NoRequest)
              => geo.data # "null")

\* The browser reported a position and the call is in flight.
C28_Witness ==
    /\ geo = [loading |-> FALSE, error |-> "null", data |-> "here"]
    /\ pc = "generateContent" /\ request = getLocalInsightsRequest
====
